---- MODULE Spec2Model ----
(***************************************************************************)
(* Tool registry, tool executor (and, further down, the loader) of the MCP *)
(* server: src/src/core/tool-loader.ts holds ToolLoader (lines 1-95) and   *)
(* ToolRegistry (lines 97-225); src/unnamed/part_008 holds ToolExecutor.   *)
(*                                                                         *)
(* JavaScript runs one macrotask/microtask at a time: every action below   *)
(* is the code that runs between two suspension points (await).            *)
(*                                                                         *)
(* Texts (error messages) are sequences of tokens; String.includes(marker) *)
(* is membership of the marker token.                                      *)
(***************************************************************************)
EXTENDS Integers, Sequences, FiniteSets, TLC

VARIABLES
  tools,        \* ToolRegistry.tools: Map<string, MCPTool>, name -> descriptor id
  healthStatus, \* ToolRegistry.healthStatus: Map<string, boolean>
  regs,         \* register() calls suspended at `await tool.initialize()`
  calls,        \* execute() calls suspended at `await Promise.race([...])`
  last,         \* what the step that led to this state did (observation only)
  sweep,        \* the performHealthCheck() call suspended at `await tool.healthCheck()`
  loads,        \* loadTool() calls suspended at `await import(...)` or `await register(...)`
  bulk,         \* the loadAll() call of the start-up sequence
  seen,         \* what the loader did in the step that led to this state (observation only)
  late,         \* what is left of a settled Promise.race: the event that lost it
  app,          \* the Express application createApp() built, once it has
  transports,   \* per mounted tool, its router's Map<sessionId, transport>
  closing,      \* DELETE handlers suspended at `await transport.close()`
  issued,       \* how many session ids randomUUID() has produced
  auth,         \* process.env.AUTHORIZATION_KEY and what authMiddleware did last
  http          \* the HTTP request the last step handled and its answer (observation only)

vars ==
  <<tools, healthStatus, regs, calls, last, sweep, loads, bulk, seen, late, app,
    transports, closing, issued, auth, http>>

\* the state of the loader
loaderVars == <<loads, bulk, seen>>

\* the state of the HTTP server
serverVars == <<app, transports, closing, issued, auth, http>>

----------------------------------------------------------------------------
(* Bounds of the model *)

\* execute() calls that may be awaiting their race at the same time
MaxCalls == 1

\* register() calls that may be awaiting initialize() at the same time
MaxRegs == 1

\* settled races whose losing event is still to come
MaxLate == 1

\* sessions the routers may create
MaxSessions == 2

\* DELETE handlers that may be awaiting transport.close() at the same time
MaxClosing == 2

----------------------------------------------------------------------------
(* Program constants *)

\* new ToolExecutor(defaultTimeout = 30000)
DefaultTimeout == 30000

\* a caller-supplied timeout, as in executor.execute('test-tool', 'slow', {}, 50)
ShortTimeout == 50

----------------------------------------------------------------------------
(* JavaScript values that flow through the executor *)

Num(n) == [type |-> "number", num |-> n, str |-> ""]

Str(s) == [type |-> "string", num |-> 0, str |-> s]

Undefined == [type |-> "undefined", num |-> 0, str |-> ""]

ParamKeys == {"a", "b", "timezone"}

\* the keys in a fixed order, used where several keys are reported in one text
KeyOrder == <<"a", "b", "timezone">>

\* a params value that is an object: a missing key reads as undefined
Obj(a, b, tz) == [object |-> TRUE, fields |-> [a |-> a, b |-> b, timezone |-> tz]]

\* a params value that is no object at all (null, a string, ...)
NotAnObject == [object |-> FALSE, fields |-> [a |-> Undefined, b |-> Undefined, timezone |-> Undefined]]

\* `${ms}` in a template literal: the decimal digits of the number
NumberToString(n) ==
  CASE n = DefaultTimeout -> "30000"
    [] n = ShortTimeout -> "50"
    [] n = 0 -> "0"
    [] OTHER -> "NaN"

\* String.prototype.includes on a text
Includes(text, marker) == \E i \in 1..Len(text) : text[i] = marker

----------------------------------------------------------------------------
(* Tool descriptors (MCPTool objects) and their methods *)

Names == {"calc", "time"}

\* descriptor ids: two MCPTool objects named calc, two named time
Descriptors == {"calcV1", "calcV2", "timeV1", "timeBroken"}

\* tool.name
ToolName(d) == IF d \in {"calcV1", "calcV2"} THEN "calc" ELSE "time"

\* tool.version
ToolVersion(d) == IF d = "calcV2" THEN "2.0.0" ELSE "1.0.0"

\* whether the descriptor has the optional initialize()
HasInitialize(d) == d \in {"calcV2", "timeV1"}

\* whether the descriptor has the optional healthCheck()
HasHealthCheck(d) == d \in {"calcV2", "timeV1"}

\* whether tool.getMethods() throws instead of returning the method list
GetMethodsThrows(d) == d = "timeBroken"

\* what a throwing getMethods() throws
GetMethodsError == [kind |-> "Error", text |-> <<"getMethods", "failed">>]

\* the names of the methods tool.getMethods() returns
MethodNames(d) ==
  CASE d = "calcV1" -> {"add", "connect"}
    [] d = "calcV2" -> {"add"}
    [] d = "timeV1" -> {"get_current_time"}
    [] OTHER -> {}

\* zod validators of an input schema
ZNumber == [type |-> "number", hasDefault |-> FALSE, default |-> Undefined]

ZStringDefault(s) == [type |-> "string", hasDefault |-> TRUE, default |-> Str(s)]

\* method.inputSchema: the shape, a validator per declared key
InputSchema(m) ==
  CASE m = "add" -> [a |-> ZNumber, b |-> ZNumber]
    [] m = "get_current_time" -> [timezone |-> ZStringDefault("Etc/UTC")]
    [] OTHER -> [k \in {} |-> ZNumber]

\* the value a handler resolves with, when it resolves
HandlerData(m, arg) ==
  CASE m = "add" -> Num(arg.a.num + arg.b.num)
    [] m = "get_current_time" -> arg.timezone
    [] OTHER -> Str("connected")

\* what a handler may throw (reject with)
ErrorObj(text) == [kind |-> "Error", text |-> text]

BareString(text) == [kind |-> "string", text |-> text]

\* an object without prototype, as Object.create(null): String() cannot convert it
NullProtoObject == [kind |-> "nullproto", text |-> <<>>]

HandlerThrows(m) ==
  CASE m = "get_current_time" -> {ErrorObj(<<"Invalid timezone">>)}
    [] m = "connect" ->
         { ErrorObj(<<"Regular error">>),
           ErrorObj(<<"connect", "ECONNREFUSED">>),
           ErrorObj(<<"getaddrinfo", "ENOTFOUND">>),
           ErrorObj(<<"timeout", "ECONNREFUSED">>),
           BareString(<<"String error">>),
           BareString(<<"connect", "ECONNREFUSED">>),
           NullProtoObject }
    [] OTHER -> {}

----------------------------------------------------------------------------
(* Map operations *)

MapHas(map, k) == k \in DOMAIN map

MapSet(map, k, v) == [x \in DOMAIN map \cup {k} |-> IF x = k THEN v ELSE map[x]]

MapDelete(map, k) == [x \in DOMAIN map \ {k} |-> map[x]]

EmptyMap == [x \in {} |-> FALSE]

----------------------------------------------------------------------------
(* The observation record: every field is present in every state *)

NoEvent ==
  [ op |-> "none", phase |-> "", name |-> "", desc |-> "", method |-> "",
    params |-> NotAnObject, timeout |-> Undefined, settled |-> "", result |-> [none |-> TRUE],
    thrown |-> [kind |-> "none", text |-> <<>>], handlerCalls |-> 0,
    handlerArg |-> [none |-> TRUE], initializeCalls |-> 0, healthWrites |-> {},
    found |-> FALSE, fresh |-> FALSE, healthy |-> FALSE, ms |-> 0, race |-> "",
    value |-> FALSE, verdicts |-> EmptyMap, prior |-> EmptyMap, clean |-> FALSE ]

----------------------------------------------------------------------------
(* ToolRegistry *)

\* getTool with a bug: an unknown name falls back to some registered tool
getToolWithFallback(toolName) ==
  IF MapHas(tools, toolName) THEN tools[toolName]
  ELSE IF DOMAIN tools = {} THEN ""
  ELSE tools[CHOOSE n \in DOMAIN tools : TRUE]

\* getTool with a bug: a tool whose health flag is not true is not returned
getToolHealthyOnly(toolName) ==
  IF MapHas(tools, toolName) /\ MapHas(healthStatus, toolName) /\ healthStatus[toolName] = TRUE
    THEN tools[toolName] ELSE ""

\* getTool(toolName): the descriptor, or "" for undefined
getTool(toolName) == IF MapHas(tools, toolName) THEN tools[toolName] ELSE ""

\* getAllTools()
getAllTools == {tools[n] : n \in DOMAIN tools}

\* getHealthyTools with a bug: the filter on the health flag is missing
getHealthyToolsUnfiltered == getAllTools

\* getHealthyTools(): filter(tool => healthStatus.get(tool.name) === true)
getHealthyTools ==
  {d \in getAllTools : MapHas(healthStatus, ToolName(d)) /\ healthStatus[ToolName(d)] = TRUE}

\* healthStatus.get(name) ?? false
HealthOrFalse(n) == IF MapHas(healthStatus, n) THEN healthStatus[n] ELSE FALSE

\* getToolStatus(toolName): undefined ([present |-> FALSE]) without a descriptor
getToolStatus(toolName) ==
  IF ~MapHas(tools, toolName)
    THEN [present |-> FALSE, name |-> "", version |-> "", healthy |-> FALSE]
    ELSE [present |-> TRUE, name |-> ToolName(tools[toolName]),
          version |-> ToolVersion(tools[toolName]), healthy |-> HealthOrFalse(toolName)]

\* getAllToolStatus(): one status view per entry of this.tools
getAllToolStatus == {getToolStatus(n) : n \in DOMAIN tools}

\* register with a bug: an existing entry is kept instead of replaced
ToolsAfterRegisterKeepOld(d) ==
  IF MapHas(tools, ToolName(d)) THEN tools ELSE MapSet(tools, ToolName(d), d)

\* this.tools.set(tool.name, tool)
ToolsAfterRegister(d) == MapSet(tools, ToolName(d), d)

\* the catch of register() with a bug: the flag of a name that still has a
\* descriptor is left alone
HealthAfterFailedRegisterKeep(d) ==
  IF MapHas(tools, ToolName(d)) THEN healthStatus ELSE MapSet(healthStatus, ToolName(d), FALSE)

\* the catch of register(): this.healthStatus.set(tool.name, false)
HealthAfterFailedRegister(d) == MapSet(healthStatus, ToolName(d), FALSE)

\* register() with a bug: the descriptor is installed without a health flag
HealthAfterRegisterForgotten(d) == healthStatus

\* this.healthStatus.set(tool.name, true)
HealthAfterRegister(d) == MapSet(healthStatus, ToolName(d), TRUE)

\* the part of register() after initialize() has settled without failure:
\* tools.set, healthStatus.set(true), then logger.info(... tool.getMethods() ...),
\* all inside the try; a throwing getMethods() lands in the catch
RegisterCommit(d, initCalls, fresh) ==
  LET n == ToolName(d) IN
  /\ tools' = ToolsAfterRegister(d)
  /\ IF GetMethodsThrows(d)
       THEN /\ healthStatus' = MapSet(HealthAfterRegister(d), n, FALSE)
            /\ last' = [NoEvent EXCEPT !.op = "register", !.phase = "settled", !.name = n,
                          !.desc = d, !.settled = "rejected", !.thrown = GetMethodsError,
                          !.initializeCalls = initCalls, !.found = MapHas(tools, n),
                          !.fresh = fresh]
       ELSE /\ healthStatus' = HealthAfterRegister(d)
            /\ last' = [NoEvent EXCEPT !.op = "register", !.phase = "settled", !.name = n,
                          !.desc = d, !.settled = "resolved",
                          !.initializeCalls = initCalls, !.found = MapHas(tools, n),
                          !.fresh = fresh]

\* register(tool), up to its first suspension point
RegisterCall(d) ==
  IF HasInitialize(d)
    THEN /\ \A r \in regs : r.desc # d
         /\ regs' = regs \cup {[desc |-> d, fresh |-> ~MapHas(tools, ToolName(d))]}
         /\ last' = [NoEvent EXCEPT !.op = "register", !.phase = "awaiting",
                       !.name = ToolName(d), !.desc = d, !.initializeCalls = 1,
                       !.found = MapHas(tools, ToolName(d)),
                       !.fresh = ~MapHas(tools, ToolName(d))]
         /\ UNCHANGED <<tools, healthStatus, calls>>
    ELSE /\ RegisterCommit(d, 0, ~MapHas(tools, ToolName(d)))
         /\ UNCHANGED <<regs, calls>>

\* register(tool) called from outside the loader
Register(d) ==
  /\ HasInitialize(d) => Cardinality(regs) < MaxRegs
  /\ RegisterCall(d)

\* `await tool.initialize()` resumes normally
InitializeResolves(r) ==
  /\ r \in regs
  /\ regs' = regs \ {r}
  /\ RegisterCommit(r.desc, 1, r.fresh)
  /\ UNCHANGED calls

\* `await tool.initialize()` throws: the catch of register()
InitializeRejects(r) ==
  /\ r \in regs
  /\ regs' = regs \ {r}
  /\ healthStatus' = HealthAfterFailedRegister(r.desc)
  /\ last' = [NoEvent EXCEPT !.op = "register", !.phase = "settled",
                !.name = ToolName(r.desc), !.desc = r.desc, !.settled = "rejected",
                !.thrown = ErrorObj(<<"Init failed">>), !.initializeCalls = 1,
                !.found = MapHas(tools, ToolName(r.desc)), !.fresh = r.fresh]
  /\ UNCHANGED <<tools, calls>>

\* unregister with a bug: the health flag of the name is left behind
HealthAfterUnregisterLeft(toolName) == healthStatus

\* this.healthStatus.delete(toolName)
HealthAfterUnregister(toolName) == MapDelete(healthStatus, toolName)

\* unregister(toolName): returns what this.tools.delete(toolName) returned
Unregister(n) ==
  /\ tools' = MapDelete(tools, n)
  /\ healthStatus' = HealthAfterUnregister(n)
  /\ last' = [NoEvent EXCEPT !.op = "unregister", !.phase = "settled", !.name = n,
                !.settled = "returned", !.found = MapHas(tools, n),
                !.value = MapHas(tools, n)]
  /\ UNCHANGED <<regs, calls>>

\* setHealthStatus with a bug: the flag is written whether or not the name
\* has a descriptor
HealthAfterSetUnguarded(toolName, healthy) == MapSet(healthStatus, toolName, healthy)

\* the registry after setHealthStatus(toolName, healthy)
HealthAfterSet(toolName, healthy) ==
  IF MapHas(tools, toolName) THEN MapSet(healthStatus, toolName, healthy) ELSE healthStatus

\* setHealthStatus(toolName, healthy), called from outside the executor
SetHealthStatus(n, h) ==
  /\ healthStatus' = HealthAfterSet(n, h)
  /\ last' = [NoEvent EXCEPT !.op = "setHealthStatus", !.phase = "settled", !.name = n,
                !.settled = "returned", !.healthy = h, !.found = MapHas(tools, n)]
  /\ UNCHANGED <<tools, regs, calls>>

\* no performHealthCheck() call is in flight. Of a call in flight: the entry
\* being checked (name, desc), the entries still to visit (rest) and, for as
\* long as no other operation ran since the call began (clean), the flags at
\* its start (prior) and the outcome of every check so far (verdicts)
NoSweep ==
  [ active |-> FALSE, name |-> "", desc |-> "", rest |-> <<>>,
    verdicts |-> EmptyMap, prior |-> EmptyMap, clean |-> FALSE ]

\* the orders in which a Map may hold a set of keys (its insertion order)
Orders(S) ==
  {o \in [1..Cardinality(S) -> S] : \A i, j \in 1..Cardinality(S) : i # j => o[i] # o[j]}

\* the for-of loop of performHealthCheck() over the entries `rest` still to
\* visit: entries without healthCheck are passed, the first one with it is
\* invoked and awaited; with none left the call completes
SweepOn(rest, sw, ev) ==
  LET checked == {i \in 1..Len(rest) : HasHealthCheck(tools[rest[i]])} IN
  IF checked = {}
    THEN /\ sweep' = NoSweep
         /\ last' = [ev EXCEPT !.phase = "completed", !.settled = "returned",
                       !.verdicts = sw.verdicts, !.prior = sw.prior, !.clean = sw.clean]
    ELSE LET i == CHOOSE k \in checked : \A m \in checked : k <= m IN
         /\ sweep' = [sw EXCEPT !.active = TRUE, !.name = rest[i], !.desc = tools[rest[i]],
                        !.rest = SubSeq(rest, i + 1, Len(rest))]
         /\ last' = [ev EXCEPT !.phase = "awaiting"]

\* performHealthCheck(), up to its first suspension point
PerformHealthCheck ==
  /\ ~sweep.active
  /\ \E order \in Orders(DOMAIN tools) :
       SweepOn(order, [NoSweep EXCEPT !.prior = healthStatus, !.clean = TRUE],
               [NoEvent EXCEPT !.op = "performHealthCheck"])
  /\ UNCHANGED <<tools, healthStatus, regs, calls>>

\* a throwing check with a bug: the flag is left as it was
HealthAfterCheckThrewKept(name) == healthStatus

\* the catch inside the loop: this.healthStatus.set(name, false)
HealthAfterCheckThrew(name) == MapSet(healthStatus, name, FALSE)

\* this.healthStatus.set(name, healthy)
HealthAfterCheck(name, healthy) == MapSet(healthStatus, name, healthy)

\* `await tool.healthCheck()` resumes with a boolean
HealthCheckResolves(healthy) ==
  /\ sweep.active
  /\ healthStatus' = HealthAfterCheck(sweep.name, healthy)
  /\ SweepOn(sweep.rest,
             [sweep EXCEPT !.verdicts = IF sweep.clean
                                          THEN MapSet(@, sweep.name, IF healthy THEN "true" ELSE "false")
                                          ELSE @],
             [NoEvent EXCEPT !.op = "performHealthCheck", !.name = sweep.name,
                !.desc = sweep.desc, !.healthy = healthy, !.healthWrites = {sweep.name},
                !.found = MapHas(tools, sweep.name)])
  /\ UNCHANGED <<tools, regs, calls>>

\* the sweep with a bug: the try/catch is around the loop, a throwing check
\* ends the sweep
RestAfterCheckThrewAborted(rest) == <<>>

\* the try/catch is inside the for-of loop: after the catch the loop goes on
\* with the next entry
RestAfterCheckThrew(rest) == rest

\* `await tool.healthCheck()` throws
HealthCheckRejects ==
  /\ sweep.active
  /\ healthStatus' = HealthAfterCheckThrew(sweep.name)
  /\ SweepOn(RestAfterCheckThrew(sweep.rest),
             [sweep EXCEPT !.verdicts = IF sweep.clean THEN MapSet(@, sweep.name, "threw") ELSE @],
             [NoEvent EXCEPT !.op = "performHealthCheck", !.name = sweep.name,
                !.desc = sweep.desc, !.thrown = ErrorObj(<<"Health check failed">>),
                !.healthWrites = {sweep.name}, !.found = MapHas(tools, sweep.name)])
  /\ UNCHANGED <<tools, regs, calls>>

\* what a Map iterator suspended inside the loop sees of a change made by
\* another operation: a deleted entry is no longer visited, an entry added
\* (or deleted and added again) is visited at the end, a replaced value keeps
\* its place
SweepDisturbed ==
  LET added == DOMAIN tools' \ DOMAIN tools
      kept == SelectSeq(sweep.rest, LAMBDA n : n \in DOMAIN tools')
  IN  sweep' = IF ~sweep.active THEN sweep
               ELSE [sweep EXCEPT !.clean = FALSE, !.verdicts = EmptyMap, !.prior = EmptyMap,
                       !.rest = IF added = {} THEN kept
                                ELSE Append(kept, CHOOSE n \in added : TRUE)]

----------------------------------------------------------------------------
(* ToolExecutor *)

\* a validator with a bug: any defined value is accepted, whatever its type
AcceptsAnyDefined(validator, v) == v # Undefined

\* whether a zod validator accepts a value (after default substitution)
Accepts(validator, v) == v.type = validator.type

\* `Tool not found: ${toolName}`
ToolNotFoundText(toolName) == <<"Tool not found: ", toolName>>

\* the method-not-found text with a bug: the tool name is left out
MethodNotFoundTextUnqualified(toolName, methodName) == <<"Method not found: ", methodName>>

\* `Method not found: ${toolName}.${methodName}`
MethodNotFoundText(toolName, methodName) == <<"Method not found: ", toolName, ".", methodName>>

\* `Invalid parameters: ${parseResult.error.message}`
InvalidParametersText(message) == <<"Invalid parameters: ">> \o message

\* createSchemaFromShape(shape).safeParse(params): z.object(shape) rejects a
\* non-object, substitutes defaults for undefined keys, checks each declared
\* key's type and strips the keys the shape does not declare
safeParse(shape, params) ==
  LET value(k) == IF params.fields[k] = Undefined /\ shape[k].hasDefault
                    THEN shape[k].default ELSE params.fields[k]
      bad == {k \in DOMAIN shape : ~Accepts(shape[k], value(k))}
      issue(k) == IF value(k) = Undefined THEN "Required" ELSE "Invalid type"
      badKeys == SelectSeq(KeyOrder, LAMBDA k : k \in bad)
  IN  IF ~params.object
        THEN [success |-> FALSE, data |-> [k \in {} |-> Undefined],
              message |-> <<"Expected object">>]
      ELSE IF bad # {}
        THEN [success |-> FALSE, data |-> [k \in {} |-> Undefined],
              message |-> [i \in 1..Len(badKeys) |-> issue(badKeys[i])]]
      ELSE [success |-> TRUE, data |-> [k \in DOMAIN shape |-> value(k)],
            message |-> <<>>]

\* timeout ?? this.defaultTimeout
EffectiveTimeout(timeout) == IF timeout = Undefined THEN DefaultTimeout ELSE timeout.num

\* the Error createTimeout(ms) rejects with
TimeoutError(ms) == ErrorObj(<<"Execution", "timeout", "after", NumberToString(ms), "ms">>)

\* String(error) throws a TypeError for a value it cannot convert
StringThrows(error) == error.kind = "nullproto"

\* error instanceof Error ? error.message : String(error)
ErrorMessage(error) == error.text

\* isCriticalError with a bug: every Error object is critical
isCriticalErrorAnyError(error) == error.kind = "Error"

\* isCriticalError with a bug: ENOTFOUND is not recognised
isCriticalErrorRefusedOnly(error) ==
  /\ error.kind = "Error"
  /\ ~Includes(error.text, "timeout")
  /\ Includes(error.text, "ECONNREFUSED")

\* isCriticalError with a bug: the connectivity markers are looked for first
isCriticalErrorConnectivityFirst(error) ==
  IF error.kind = "Error"
    THEN IF Includes(error.text, "ECONNREFUSED") \/ Includes(error.text, "ENOTFOUND") THEN TRUE
         ELSE FALSE
    ELSE FALSE

\* isCriticalError(error)
isCriticalError(error) ==
  IF error.kind = "Error"
    THEN IF Includes(error.text, "timeout") THEN FALSE
         ELSE Includes(error.text, "ECONNREFUSED") \/ Includes(error.text, "ENOTFOUND")
    ELSE FALSE

\* the catch block of execute(): ev is the observation of the call so far
Catch(toolName, error, ev) ==
  IF error.kind # "Error" /\ StringThrows(error)
    THEN /\ healthStatus' = healthStatus
         /\ last' = [ev EXCEPT !.phase = "settled", !.settled = "rejected", !.thrown = error,
                       !.result = [threw |-> "TypeError"]]
    ELSE /\ healthStatus' = IF isCriticalError(error)
                              THEN HealthAfterSet(toolName, FALSE) ELSE healthStatus
         /\ last' = [ev EXCEPT !.phase = "settled", !.settled = "returned", !.thrown = error,
                       !.result = [success |-> FALSE, error |-> ErrorMessage(error)],
                       !.healthWrites = IF isCriticalError(error) THEN {toolName} ELSE {}]

\* the requests callers make: a method name, a params value and the optional
\* timeout (undefined when omitted)
Request(m, params, timeout) == [method |-> m, params |-> params, timeout |-> timeout]

Requests ==
  { Request("add", Obj(Num(2), Num(3), Undefined), Undefined),
    Request("add", Obj(Num(2), Undefined, Undefined), Undefined),
    Request("add", Obj(Str("x"), Num(3), Undefined), Num(ShortTimeout)),
    Request("add", NotAnObject, Undefined),
    Request("get_current_time", Obj(Undefined, Undefined, Undefined), Undefined),
    Request("get_current_time", Obj(Num(2), Undefined, Str("Asia/Shanghai")), Undefined),
    Request("connect", Obj(Undefined, Undefined, Undefined), Undefined),
    Request("connect", Obj(Undefined, Undefined, Undefined), Num(ShortTimeout)),
    Request("reverse", Obj(Undefined, Undefined, Undefined), Undefined) }

\* the handler invoked with a bug: it gets the raw input, not the parse result
HandlerArgumentRaw(parseResult, params) == params.fields

\* the argument the handler is invoked with
HandlerArgument(parseResult, params) == parseResult.data

\* execute(toolName, methodName, params, timeout), up to its first suspension point
Execute(toolName, methodName, params, timeout) ==
  LET ev == [NoEvent EXCEPT !.op = "execute", !.name = toolName, !.method = methodName,
               !.params = params, !.timeout = timeout, !.found = MapHas(tools, toolName),
               !.desc = getTool(toolName)]
      tool == getTool(toolName)
      parseResult == safeParse(InputSchema(methodName), params)
      arg == HandlerArgument(parseResult, params)
      call == [name |-> toolName, method |-> methodName, desc |-> tool, arg |-> arg,
               ms |-> EffectiveTimeout(timeout)]
  IN
  IF tool = ""
    THEN /\ last' = [ev EXCEPT !.phase = "settled", !.settled = "returned",
                       !.result = [success |-> FALSE, error |-> ToolNotFoundText(toolName)]]
         /\ UNCHANGED <<tools, healthStatus, regs, calls>>
  ELSE IF GetMethodsThrows(tool)
    THEN /\ Catch(toolName, GetMethodsError, ev)
         /\ UNCHANGED <<tools, regs, calls>>
  ELSE IF methodName \notin MethodNames(tool)
    THEN /\ last' = [ev EXCEPT !.phase = "settled", !.settled = "returned",
                       !.result = [success |-> FALSE,
                                   error |-> MethodNotFoundText(toolName, methodName)]]
         /\ UNCHANGED <<tools, healthStatus, regs, calls>>
  ELSE IF ~parseResult.success
    THEN /\ last' = [ev EXCEPT !.phase = "settled", !.settled = "returned",
                       !.result = [success |-> FALSE,
                                   error |-> InvalidParametersText(parseResult.message)]]
         /\ UNCHANGED <<tools, healthStatus, regs, calls>>
  ELSE /\ Cardinality(calls) < MaxCalls
       /\ call \notin calls
       /\ calls' = calls \cup {call}
       /\ last' = [ev EXCEPT !.phase = "invoked", !.handlerCalls = 1, !.handlerArg = arg,
                     !.ms = call.ms]
       /\ UNCHANGED <<tools, healthStatus, regs>>

\* the resumed call with a bug: it looks the tool up again after its await
\* and completes against whatever the name holds then
ResumedLookedUpAgain(c) ==
  [NoEvent EXCEPT !.op = "execute", !.name = c.name, !.method = c.method,
     !.desc = getTool(c.name), !.handlerCalls = 1, !.handlerArg = c.arg, !.ms = c.ms,
     !.found = MapHas(tools, c.name)]

\* the observation of a call that resumes from its await: tool and method were
\* bound before it, and the handler was invoked before it
Resumed(c) ==
  [NoEvent EXCEPT !.op = "execute", !.name = c.name, !.method = c.method, !.desc = c.desc,
     !.handlerCalls = 1, !.handlerArg = c.arg, !.ms = c.ms, !.found = MapHas(tools, c.name)]

\* the success path with a bug: a call that succeeds marks its tool healthy
HealthAfterSuccessRestored(toolName) == HealthAfterSet(toolName, TRUE)

\* the success path of execute() makes no call to the registry
HealthAfterSuccess(toolName) == healthStatus

\* the handler's promise fulfils first: lines 70-76
HandlerResolves(c) ==
  /\ c \in calls
  /\ calls' = calls \ {c}
  /\ healthStatus' = HealthAfterSuccess(c.name)
  /\ last' = [Resumed(c) EXCEPT !.phase = "settled", !.settled = "returned", !.race = "handler",
                !.result = [success |-> TRUE, data |-> HandlerData(c.method, c.arg)]]
  /\ UNCHANGED <<tools, regs>>

\* the handler's promise rejects first: the catch
HandlerRejects(c, error) ==
  /\ c \in calls
  /\ error \in HandlerThrows(c.method)
  /\ calls' = calls \ {c}
  /\ Catch(c.name, error, [Resumed(c) EXCEPT !.race = "handler"])
  /\ UNCHANGED <<tools, regs>>

\* createTimeout with a bug: the timer is armed only for a timeout the caller
\* supplied, not for the default
TimerArmedOnlyWhenSupplied(ms) == ms # DefaultTimeout

\* createTimeout(ms): setTimeout(() => reject(...), ms) is armed for every ms
TimerArmed(ms) == TRUE

\* the timer of createTimeout(ms) fires first: the catch, with the timeout Error
TimerElapses(c) ==
  /\ c \in calls
  /\ TimerArmed(c.ms)
  /\ calls' = calls \ {c}
  /\ Catch(c.name, TimeoutError(c.ms), [Resumed(c) EXCEPT !.race = "timer"])
  /\ UNCHANGED <<tools, regs>>

----------------------------------------------------------------------------
(* What is left of a settled race: Promise.race neither cancels the handler *)
(* nor clears the timer of createTimeout                                    *)

\* the event that lost the race of call c: kind is "handler" after the timer
\* won, "timer" after the handler won
Leftover(c, kind) == [name |-> c.name, method |-> c.method, ms |-> c.ms, kind |-> kind]

\* the observation of a losing event that arrives
Late(l) ==
  [NoEvent EXCEPT !.op = "execute", !.phase = "late", !.name = l.name, !.method = l.method,
     !.ms = l.ms, !.race = l.kind, !.found = MapHas(tools, l.name)]

\* the race with a bug: the catch of execute() also runs for a failure that
\* arrives after the race is settled
HealthAfterLateFailureClassified(toolName, error) ==
  IF isCriticalError(error) THEN HealthAfterSet(toolName, FALSE) ELSE healthStatus

\* the rejection of a promise that already lost its race: execute() has
\* returned, nothing runs
HealthAfterLateFailure(toolName, error) == healthStatus

\* the handler's promise fulfils after the timer won
LateHandlerResolves(l) ==
  /\ l \in late /\ l.kind = "handler"
  /\ late' = late \ {l}
  /\ last' = Late(l)
  /\ UNCHANGED <<tools, healthStatus, regs, calls>>

\* the handler's promise rejects after the timer won
LateHandlerRejects(l, error) ==
  /\ l \in late /\ l.kind = "handler"
  /\ error \in HandlerThrows(l.method)
  /\ late' = late \ {l}
  /\ healthStatus' = HealthAfterLateFailure(l.name, error)
  /\ last' = [Late(l) EXCEPT !.thrown = error]
  /\ UNCHANGED <<tools, regs, calls>>

\* the timer of createTimeout fires after the handler won
LateTimerElapses(l) ==
  /\ l \in late /\ l.kind = "timer"
  /\ late' = late \ {l}
  /\ healthStatus' = HealthAfterLateFailure(l.name, TimeoutError(l.ms))
  /\ last' = [Late(l) EXCEPT !.thrown = TimeoutError(l.ms)]
  /\ UNCHANGED <<tools, regs, calls>>

\* a race settles and leaves its losing event behind
LeavesBehind(kind) ==
  /\ Cardinality(late) < MaxLate
  /\ late' = late \cup {Leftover(c, kind) : c \in calls \ calls'}

----------------------------------------------------------------------------
(* ToolLoader *)

\* the tool directories under toolsDir
Dirs == {"calc", "time"}

\* the entry files the pattern `*/index.{ts,js}` can match: a directory may
\* hold both index.ts and index.js
Files == {"calc/index.ts", "calc/index.js", "time/index.ts"}

\* path.basename(path.dirname(filePath))
DirOf(file) == IF file = "time/index.ts" THEN "time" ELSE "calc"

\* path.join(this.toolsDir, toolName, 'index.ts')
EntryOf(toolName) == IF toolName = "time" THEN "time/index.ts" ELSE "calc/index.ts"

\* the MCPTool objects a file may export as its default; the name a tool
\* declares is its own: time/index.ts may export a tool that calls itself calc
ExportedBy(file) ==
  CASE file = "calc/index.ts" -> {"calcV2"}
    [] file = "calc/index.js" -> {"calcV1"}
    [] OTHER -> {"timeV1", "timeBroken", "calcV1"}

\* what `await import(moduleUrl)` resolves to: whether the module has a
\* default export, and whether that object has a non-empty name and getMethods
Module(hasDefault, hasName, hasGetMethods, d) ==
  [hasDefault |-> hasDefault, hasName |-> hasName, hasGetMethods |-> hasGetMethods, desc |-> d]

NoModule == Module(FALSE, FALSE, FALSE, "")

Modules(file) ==
  {NoModule} \cup
  UNION { { Module(TRUE, TRUE, TRUE, d), Module(TRUE, FALSE, TRUE, d),
            Module(TRUE, TRUE, FALSE, d) } : d \in ExportedBy(file) }

\* the checks of loadTool with a bug: && in place of ||
ValidateModuleBothMissing(m) ==
  IF ~m.hasDefault THEN "nodefault"
  ELSE IF ~m.hasName /\ ~m.hasGetMethods THEN "shape"
  ELSE "ok"

\* the checks of loadTool on the imported module: `!module.default`, then
\* `!tool.name || !tool.getMethods`
ValidateModule(m) ==
  IF ~m.hasDefault THEN "nodefault"
  ELSE IF ~m.hasName \/ ~m.hasGetMethods THEN "shape"
  ELSE "ok"

\* the error loadTool rethrows, by the place it came from
LoadError(cause, toolName) ==
  CASE cause = "import" -> ErrorObj(<<"Cannot find module">>)
    [] cause = "nodefault" -> ErrorObj(<<"Tool ", toolName, " does not export default">>)
    [] cause = "shape" -> ErrorObj(<<"Tool ", toolName, " does not implement MCPTool interface">>)
    [] cause = "initialize" -> ErrorObj(<<"Init failed">>)
    [] cause = "register" -> GetMethodsError
    [] OTHER -> [kind |-> "none", text |-> <<>>]

\* the loadAll() call: not yet made ("idle"), awaiting glob ("glob"), awaiting
\* Promise.allSettled ("loading", with the outcome of every settled
\* candidate), returned ("done")
NoBulk == [phase |-> "idle", files |-> {}, results |-> EmptyMap]

\* the loader's observation record
NoLoad ==
  [ op |-> "none", phase |-> "", owner |-> "", file |-> "", name |-> "", module |-> NoModule,
    imported |-> FALSE, cause |-> "", loadSettled |-> "", settled |-> "",
    thrown |-> [kind |-> "none", text |-> <<>>], registerCalls |-> 0, unregisterCalls |-> 0,
    globFailed |-> FALSE, candidates |-> {}, results |-> EmptyMap,
    succeeded |-> 0, failed |-> 0, unregistered |-> "" ]

\* a loadTool() call suspended at `await import(moduleUrl)`; for a reload,
\* `unregistered` remembers the healthy descriptor that was removed first
Load(owner, file) ==
  [owner |-> owner, file |-> file, stage |-> "import", desc |-> "", unregistered |-> ""]

\* loadAll with a bug: the try/catch around glob is missing
GlobFailureUncaught == "rejected"

\* the catch of loadAll(): the failure is logged and the call returns
GlobFailureOutcome == "returned"

\* reloadTool with a bug: the failure of the load is swallowed
ReloadOutcomeAbsorbed(loadOutcome) == "resolved"

\* reloadTool(): `await this.loadTool(filePath)` with no catch around it
ReloadOutcome(loadOutcome) == IF loadOutcome = "rejected" THEN "rejected" ELSE "resolved"

\* loadAll(), up to `await glob(pattern)`
LoadAll ==
  /\ bulk.phase = "idle"
  /\ bulk' = [NoBulk EXCEPT !.phase = "glob"]
  /\ seen' = [NoLoad EXCEPT !.op = "loadAll", !.phase = "globbing"]
  /\ last' = NoEvent
  /\ UNCHANGED <<tools, healthStatus, regs, calls, loads>>

\* glob resolves with the files fs: toolFiles.map(file => this.loadTool(file))
\* runs every loadTool up to its import, then loadAll awaits allSettled
GlobResolves(fs) ==
  /\ bulk.phase = "glob"
  /\ bulk' = [phase |-> "loading", files |-> fs, results |-> EmptyMap]
  /\ loads' = loads \cup {Load("loadAll", f) : f \in fs}
  /\ seen' = [NoLoad EXCEPT !.op = "loadAll", !.phase = "loading", !.candidates = fs]
  /\ last' = NoEvent
  /\ UNCHANGED <<tools, healthStatus, regs, calls>>

\* glob rejects: the catch of loadAll()
GlobRejects ==
  /\ bulk.phase = "glob"
  /\ bulk' = [NoBulk EXCEPT !.phase = "done"]
  /\ seen' = [NoLoad EXCEPT !.op = "loadAll", !.phase = "settled", !.globFailed = TRUE,
                !.settled = GlobFailureOutcome]
  /\ last' = NoEvent
  /\ UNCHANGED <<tools, healthStatus, regs, calls, loads>>

\* a loadTool() call settles: its promise is one of those allSettled waits
\* for, or the one reloadTool awaits
LoadSettles(l, outcome, cause, d, ev) ==
  LET ev2 == [ev EXCEPT !.owner = l.owner, !.file = l.file, !.cause = cause,
                !.loadSettled = outcome, !.unregistered = l.unregistered,
                !.thrown = LoadError(cause, DirOf(l.file))]
  IN
  IF l.owner = "loadAll"
    THEN /\ bulk' = [bulk EXCEPT !.results =
                       MapSet(@, l.file, [status |-> outcome, cause |-> cause, desc |-> d])]
         /\ seen' = [ev2 EXCEPT !.op = "loadTool", !.phase = "settled"]
    ELSE /\ bulk' = bulk
         /\ seen' = [ev2 EXCEPT !.op = "reloadTool", !.phase = "settled",
                       !.name = DirOf(l.file), !.settled = ReloadOutcome(outcome)]

\* `await import(moduleUrl)` rejects: the catch of loadTool rethrows
ImportRejects(l) ==
  /\ l \in loads /\ l.stage = "import"
  /\ loads' = loads \ {l}
  /\ LoadSettles(l, "rejected", "import", "", NoLoad)
  /\ last' = NoEvent
  /\ UNCHANGED <<tools, healthStatus, regs, calls>>

\* `await import(moduleUrl)` resolves with module m: the two checks, then
\* toolRegistry.register(tool) up to its first suspension point
ImportResolves(l, m) ==
  LET ev == [NoLoad EXCEPT !.module = m, !.imported = TRUE] IN
  /\ l \in loads /\ l.stage = "import"
  /\ m \in Modules(l.file)
  /\ IF ValidateModule(m) # "ok"
       THEN /\ loads' = loads \ {l}
            /\ LoadSettles(l, "rejected", ValidateModule(m), "", ev)
            /\ last' = NoEvent
            /\ UNCHANGED <<tools, healthStatus, regs, calls>>
     ELSE IF HasInitialize(m.desc)
       THEN /\ RegisterCall(m.desc)
            /\ loads' = (loads \ {l}) \cup {[l EXCEPT !.stage = "register", !.desc = m.desc]}
            /\ bulk' = bulk
            /\ seen' = [ev EXCEPT !.op = IF l.owner = "loadAll" THEN "loadTool" ELSE "reloadTool",
                          !.phase = "registering", !.owner = l.owner, !.file = l.file,
                          !.name = DirOf(l.file), !.registerCalls = 1]
     ELSE /\ RegisterCall(m.desc)
          /\ loads' = loads \ {l}
          /\ IF GetMethodsThrows(m.desc)
               THEN LoadSettles(l, "rejected", "register", m.desc, [ev EXCEPT !.registerCalls = 1])
               ELSE LoadSettles(l, "fulfilled", "ok", m.desc, [ev EXCEPT !.registerCalls = 1])

\* `await toolRegistry.register(tool)` resumes normally
RegisterResolves(l) ==
  /\ l \in loads /\ l.stage = "register"
  /\ \E r \in regs : r.desc = l.desc /\ InitializeResolves(r)
  /\ loads' = loads \ {l}
  /\ IF GetMethodsThrows(l.desc)
       THEN LoadSettles(l, "rejected", "register", l.desc, NoLoad)
       ELSE LoadSettles(l, "fulfilled", "ok", l.desc, NoLoad)

\* `await toolRegistry.register(tool)` throws what initialize() threw
RegisterRejects(l) ==
  /\ l \in loads /\ l.stage = "register"
  /\ \E r \in regs : r.desc = l.desc /\ InitializeRejects(r)
  /\ loads' = loads \ {l}
  /\ LoadSettles(l, "rejected", "initialize", l.desc, NoLoad)

\* loadAll with a bug: it goes on as soon as one candidate has settled
AllSettledAny == bulk.files = {} \/ DOMAIN bulk.results # {}

\* await Promise.allSettled(toolFiles.map(file => this.loadTool(file)))
AllSettled == DOMAIN bulk.results = bulk.files

\* Promise.allSettled resolves once every candidate has settled: the tally,
\* the log line, and loadAll() returns
LoadAllReturns ==
  /\ bulk.phase = "loading"
  /\ AllSettled
  /\ bulk' = [NoBulk EXCEPT !.phase = "done"]
  /\ seen' = [NoLoad EXCEPT !.op = "loadAll", !.phase = "settled", !.settled = "returned",
                !.candidates = bulk.files, !.results = bulk.results,
                !.succeeded = Cardinality({f \in DOMAIN bulk.results : bulk.results[f].status = "fulfilled"}),
                !.failed = Cardinality({f \in DOMAIN bulk.results : bulk.results[f].status = "rejected"})]
  /\ last' = NoEvent
  /\ UNCHANGED <<tools, healthStatus, regs, calls, loads>>

\* reloadTool(toolName), up to the import of loadTool: unregister first
ReloadTool(toolName) ==
  /\ bulk.phase = "done"
  /\ \A l \in loads : l.owner # "reloadTool"
  /\ Unregister(toolName)
  /\ loads' = loads \cup
       {[Load("reloadTool", EntryOf(toolName)) EXCEPT
           !.unregistered = IF toolName \in {ToolName(d) : d \in getHealthyTools}
                              THEN tools[toolName] ELSE ""]}
  /\ seen' = [NoLoad EXCEPT !.op = "reloadTool", !.phase = "importing", !.owner = "reloadTool",
                !.file = EntryOf(toolName), !.name = toolName, !.unregisterCalls = 1]
  /\ bulk' = bulk

----------------------------------------------------------------------------
(* The HTTP server: createApp and the routers of the tools *)

\* createApp() has not run
NoApp == [created |-> FALSE, mounted |-> {}]

\* the mcp-session-id header of a request: absent, the empty string, or an id.
\* Ids are numbered: 1, 2, ... are the values of randomUUID() in the order of
\* their creation, 0 is an id a client made up ('non-existent-session').
NoHeader == [kind |-> "absent", id |-> 0]

EmptyHeader == [kind |-> "empty", id |-> 0]

SessionId(id) == [kind |-> "id", id |-> id]

SessionIds == 0 .. MaxSessions

Headers == {NoHeader, EmptyHeader} \cup {SessionId(id) : id \in SessionIds}

\* `!sessionId`: undefined or ''
MissingSessionId(header) == header.kind # "id"

\* transports.get(sessionId): the transport, identified by its session id
HasTransport(toolName, header) ==
  ~MissingSessionId(header) /\ header.id \in transports[toolName]

\* no request handled yet
NoRequest ==
  [op |-> "none", tool |-> "", header |-> NoHeader, phase |-> "", status |-> 0,
   by |-> "", closeCalls |-> 0, session |-> 0, advertised |-> {}]

\* the requests below have passed authMiddleware and reached the router
\* that createApp mounted at /mcp/{toolName}

\* router.post('/'): an unknown or missing session id makes a new session
\* under a fresh id, stored before `await mcpServer.connect(transport)`; the
\* request is then handed to the transport.  If connect or handleRequest
\* rejects, the catch answers 500.  None of the awaits is followed by a write
\* to the Map, so the handler is one step.
Post(toolName, header, outcome) ==
  /\ app.created /\ toolName \in app.mounted
  /\ HasTransport(toolName, header) => outcome # "connectFailed"
  /\ IF HasTransport(toolName, header)
       THEN /\ UNCHANGED <<transports, issued>>
            /\ http' = [NoRequest EXCEPT !.op = "POST", !.tool = toolName, !.header = header,
                          !.phase = "answered", !.session = header.id,
                          !.status = IF outcome = "handled" THEN 0 ELSE 500,
                          !.by = IF outcome = "handled" THEN "transport" ELSE "router"]
       ELSE /\ issued < MaxSessions
            /\ issued' = issued + 1
            /\ transports' = [transports EXCEPT ![toolName] = @ \cup {issued + 1}]
            /\ http' = [NoRequest EXCEPT !.op = "POST", !.tool = toolName, !.header = header,
                          !.phase = "answered", !.session = issued + 1,
                          !.status = IF outcome = "handled" THEN 0 ELSE 500,
                          !.by = IF outcome = "handled" THEN "transport" ELSE "router"]
  /\ UNCHANGED <<app, closing, auth>>

\* router.get('/'): 400 without the header, 404 without the session, else
\* the transport answers
Get(toolName, header) ==
  /\ app.created /\ toolName \in app.mounted
  /\ http' = [NoRequest EXCEPT !.op = "GET", !.tool = toolName, !.header = header,
                !.phase = "answered",
                !.status = IF MissingSessionId(header) THEN 400
                           ELSE IF ~HasTransport(toolName, header) THEN 404 ELSE 0,
                !.by = IF HasTransport(toolName, header) THEN "transport" ELSE "router"]
  /\ UNCHANGED <<app, transports, closing, issued, auth>>

\* toolRegistry.getAllToolStatus().map(...): the names the answer lists
ListedTools == {v.name : v \in getAllToolStatus}

\* GET / and GET /tools: both list `/mcp/${name}` for every status view of
\* getAllToolStatus(), which throws (answer 500) if a getMethods() throws
ListTools(path) ==
  /\ app.created
  /\ path \in {"/", "/tools"}
  /\ http' = IF \E d \in getAllTools : GetMethodsThrows(d)
               THEN [NoRequest EXCEPT !.op = "GET", !.tool = path, !.phase = "answered",
                       !.status = 500, !.by = "express"]
               ELSE [NoRequest EXCEPT !.op = "GET", !.tool = path, !.phase = "answered",
                       !.status = 200, !.by = "app", !.advertised = ListedTools]
  /\ seen' = NoLoad
  /\ last' = NoEvent
  /\ UNCHANGED <<tools, healthStatus, regs, calls, loads, bulk, app, transports, closing,
                 issued, auth>>

\* a DELETE handler suspended at `await transport.close()`
Closing(toolName, header) ==
  [tool |-> toolName, header |-> header,
   n |-> CHOOSE n \in 1 .. MaxClosing : \A c \in closing : c.n # n]

\* router.delete('/'), up to its answer or to `await transport.close()`
Delete(toolName, header) ==
  /\ app.created /\ toolName \in app.mounted
  /\ IF HasTransport(toolName, header)
       THEN /\ Cardinality(closing) < MaxClosing
            /\ closing' = closing \cup {Closing(toolName, header)}
            /\ http' = [NoRequest EXCEPT !.op = "DELETE", !.tool = toolName, !.header = header,
                          !.phase = "closing", !.closeCalls = 1]
       ELSE /\ closing' = closing
            /\ http' = [NoRequest EXCEPT !.op = "DELETE", !.tool = toolName, !.header = header,
                          !.phase = "answered", !.by = "router",
                          !.status = IF MissingSessionId(header) THEN 400 ELSE 204]
  /\ UNCHANGED <<app, transports, issued, auth>>

\* the DELETE handler with a bug: the session stays in the Map
TransportsAfterCloseKept(toolName, sessionId) == transports

\* transports.delete(sessionId)
TransportsAfterClose(toolName, sessionId) ==
  [transports EXCEPT ![toolName] = @ \ {sessionId}]

\* transport.close() resolved: the DELETE handler removes the session and answers 204
CloseResolves(c) ==
  /\ c \in closing
  /\ closing' = closing \ {c}
  /\ transports' = TransportsAfterClose(c.tool, c.header.id)
  /\ http' = [NoRequest EXCEPT !.op = "DELETE", !.tool = c.tool, !.header = c.header,
                !.phase = "answered", !.by = "router", !.status = 204, !.closeCalls = 1]
  /\ UNCHANGED <<app, issued, auth>>

\* createApp with a bug: every registered tool gets an endpoint
MountedToolsAll == getAllTools

\* `const tools = toolRegistry.getHealthyTools()`, read once by createApp
MountedTools == getHealthyTools

\* createApp(), called by main() once loadAll() has returned.  It has no await:
\* it reads the healthy tools and mounts a router at /mcp/{name} for each.
\* createMcpServerForTool calls tool.getMethods(); if that throws, createApp
\* throws and main() exits, so that no endpoint is ever served.
CreateApp ==
  /\ bulk.phase = "done"
  /\ ~app.created
  /\ app' = IF \E d \in MountedTools : GetMethodsThrows(d)
              THEN NoApp
              ELSE [created |-> TRUE, mounted |-> {ToolName(d) : d \in MountedTools}]
  /\ seen' = [NoLoad EXCEPT !.op = "createApp", !.phase = "settled",
                !.settled = IF \E d \in MountedTools : GetMethodsThrows(d) THEN "threw" ELSE "returned"]
  /\ last' = NoEvent
  /\ transports' = [n \in app'.mounted |-> {}]
  /\ UNCHANGED <<tools, healthStatus, regs, calls, loads, bulk>>

----------------------------------------------------------------------------
(* authMiddleware, which createApp installs in front of every route *)

\* A string is a sequence of pieces: " " is one space character, any other
\* piece is a non-empty run of characters without a space.
Space == " "

\* the values of process.env.AUTHORIZATION_KEY: unset, '', and two keys
NoKey == [set |-> FALSE, value |-> <<>>]

Keys ==
  {NoKey} \cup {[set |-> TRUE, value |-> v] : v \in {<<>>, <<"secret">>, <<"my", Space, "key">>}}

\* the values of req.path
Paths == {"/", "/health", "/health/", "/tools", "/mcp/calc"}

\* the values of req.headers.authorization; the HTTP parser strips the white
\* space around a header value, so that none begins or ends with a space
NoAuthorization == [present |-> FALSE, value |-> <<>>]

Authorizations ==
  {NoAuthorization} \cup
  {[present |-> TRUE, value |-> v] :
     v \in { <<>>, <<"Bearer">>, <<"token123">>, <<"Basic", Space, "token123">>,
             <<"Bearer", Space, "secret">>, <<"Bearer", Space, "wrong">>,
             <<"bearer", Space, "secret">>, <<"Bearer", Space, Space, "secret">>,
             <<"Bearer", Space, "my", Space, "key">>,
             <<"Bearer", Space, "secret", Space, "wrong">> }}

\* str.split(' '), from the piece where the scan stands: parts found so far
\* and the part being read
RECURSIVE SplitFrom(_, _, _)
SplitFrom(str, parts, part) ==
  IF str = <<>> THEN Append(parts, part)
  ELSE IF Head(str) = Space THEN SplitFrom(Tail(str), Append(parts, part), <<>>)
  ELSE SplitFrom(Tail(str), parts, Append(part, Head(str)))

Split(str) == SplitFrom(str, <<>>, <<>>)

\* authMiddleware with a bug: /tools is served without authentication too
SkipsAuthAlsoTools(path) == path \in {"/health", "/", "/tools"}

\* req.path === '/health' || req.path === '/'
SkipsAuth(path) == path = "/health" \/ path = "/"

\* !expectedKey: undefined or ''
KeyMissing(key) == ~key.set \/ key.value = <<>>

\* !authHeader: undefined or ''
HeaderMissing(header) == ~header.present \/ header.value = <<>>

\* parts.length !== 2 || parts[0] !== 'Bearer'
BadFormat(parts) == Len(parts) # 2 \/ parts[1] # <<"Bearer">>

\* what authMiddleware does with a request: next() or an answer
AuthOutcome(key, path, header) ==
  IF SkipsAuth(path) THEN [nextCalls |-> 1, status |-> 0]
  ELSE IF KeyMissing(key) THEN [nextCalls |-> 1, status |-> 0]
  ELSE IF HeaderMissing(header) THEN [nextCalls |-> 0, status |-> 401]
  ELSE IF BadFormat(Split(header.value)) THEN [nextCalls |-> 0, status |-> 401]
  ELSE IF Split(header.value)[2] # key.value THEN [nextCalls |-> 0, status |-> 403]
  ELSE [nextCalls |-> 1, status |-> 0]

\* no request has come yet, no key is configured
NoAuth ==
  [op |-> "none", key |-> NoKey, path |-> "", header |-> NoAuthorization,
   nextCalls |-> 0, status |-> 0]

\* the environment holds this AUTHORIZATION_KEY from now on
SetAuthorizationKey(key) ==
  /\ auth' = [NoAuth EXCEPT !.op = "setKey", !.key = key]
  /\ UNCHANGED <<app, transports, closing, issued, http>>

\* authMiddleware(req, res, next)
AuthMiddleware(path, header) ==
  /\ auth' = [auth EXCEPT !.op = "authMiddleware", !.path = path, !.header = header,
                !.nextCalls = AuthOutcome(auth.key, path, header).nextCalls,
                !.status = AuthOutcome(auth.key, path, header).status]
  /\ UNCHANGED <<app, transports, closing, issued, http>>

----------------------------------------------------------------------------

Init ==
  /\ tools = EmptyMap
  /\ healthStatus = EmptyMap
  /\ regs = {}
  /\ calls = {}
  /\ last = NoEvent
  /\ sweep = NoSweep
  /\ loads = {}
  /\ bulk = NoBulk
  /\ seen = NoLoad
  /\ late = {}
  /\ app = NoApp
  /\ transports = EmptyMap
  /\ closing = {}
  /\ issued = 0
  /\ auth = NoAuth
  /\ http = NoRequest

\* registry and executor, called by the transport and by maintenance code
\* once the start-up sequence is over; no health sweep, no loader
Next ==
  \/ \E d \in Descriptors : Register(d) /\ UNCHANGED <<sweep, loaderVars, late, serverVars>>
  \/ \E r \in regs : InitializeResolves(r) /\ UNCHANGED <<sweep, loaderVars, late, serverVars>>
  \/ \E r \in regs : InitializeRejects(r) /\ UNCHANGED <<sweep, loaderVars, late, serverVars>>
  \/ \E n \in Names : Unregister(n) /\ UNCHANGED <<sweep, loaderVars, late, serverVars>>
  \/ \E n \in Names, h \in BOOLEAN :
       SetHealthStatus(n, h) /\ UNCHANGED <<sweep, loaderVars, late, serverVars>>
  \/ \E n \in Names, r \in Requests :
       Execute(n, r.method, r.params, r.timeout) /\ UNCHANGED <<sweep, loaderVars, late, serverVars>>
  \/ \E c \in calls : HandlerResolves(c) /\ UNCHANGED <<sweep, loaderVars, late, serverVars>>
  \/ \E c \in calls : \E e \in HandlerThrows(c.method) :
       HandlerRejects(c, e) /\ UNCHANGED <<sweep, loaderVars, late, serverVars>>
  \/ \E c \in calls : TimerElapses(c) /\ UNCHANGED <<sweep, loaderVars, late, serverVars>>

Spec == Init /\ [][Next]_vars

\* the requests that reach a handler able to resolve, to fail with or without
\* a connectivity marker, or to hang
RaceRequests == {r \in Requests : r.method = "connect"}

\* the executor over a registry that is only registered into, with the events
\* that arrive after a race is settled
NextRace ==
  \/ \E d \in Descriptors : Register(d) /\ UNCHANGED <<sweep, loaderVars, late, serverVars>>
  \/ \E r \in regs : InitializeResolves(r) /\ UNCHANGED <<sweep, loaderVars, late, serverVars>>
  \/ \E r \in regs : InitializeRejects(r) /\ UNCHANGED <<sweep, loaderVars, late, serverVars>>
  \/ \E n \in Names, r \in RaceRequests :
       Execute(n, r.method, r.params, r.timeout)
         /\ UNCHANGED <<sweep, loaderVars, late, serverVars>>
  \/ \E c \in calls :
       HandlerResolves(c) /\ LeavesBehind("timer") /\ UNCHANGED <<sweep, loaderVars, serverVars>>
  \/ \E c \in calls : \E e \in HandlerThrows(c.method) :
       HandlerRejects(c, e) /\ LeavesBehind("timer") /\ UNCHANGED <<sweep, loaderVars, serverVars>>
  \/ \E c \in calls :
       TimerElapses(c) /\ LeavesBehind("handler") /\ UNCHANGED <<sweep, loaderVars, serverVars>>
  \/ \E l \in late : LateHandlerResolves(l) /\ UNCHANGED <<sweep, loaderVars, serverVars>>
  \/ \E l \in late : \E e \in HandlerThrows(l.method) :
       LateHandlerRejects(l, e) /\ UNCHANGED <<sweep, loaderVars, serverVars>>
  \/ \E l \in late : LateTimerElapses(l) /\ UNCHANGED <<sweep, loaderVars, serverVars>>

SpecRace == Init /\ [][NextRace]_vars

\* every call execute() can suspend with under NextLive: descriptor d is
\* registered under its name, has the method, and the params pass validation
CallRecords ==
  { [name |-> ToolName(x[1]), method |-> x[2].method, desc |-> x[1],
     arg |-> HandlerArgument(safeParse(InputSchema(x[2].method), x[2].params), x[2].params),
     ms |-> EffectiveTimeout(x[2].timeout)] :
      x \in { y \in Descriptors \X RaceRequests :
                /\ y[2].method \in MethodNames(y[1])
                /\ safeParse(InputSchema(y[2].method), y[2].params).success } }

\* the executor as NextLive runs it: the registry is registered into, calls
\* are made and their races settle
NextLive ==
  \/ \E d \in Descriptors : Register(d) /\ UNCHANGED <<sweep, loaderVars, late, serverVars>>
  \/ \E r \in regs : InitializeResolves(r) /\ UNCHANGED <<sweep, loaderVars, late, serverVars>>
  \/ \E r \in regs : InitializeRejects(r) /\ UNCHANGED <<sweep, loaderVars, late, serverVars>>
  \/ \E n \in Names, r \in RaceRequests :
       Execute(n, r.method, r.params, r.timeout)
         /\ UNCHANGED <<sweep, loaderVars, late, serverVars>>
  \/ \E c \in calls : HandlerResolves(c) /\ UNCHANGED <<sweep, loaderVars, late, serverVars>>
  \/ \E c \in calls : \E e \in HandlerThrows(c.method) :
       HandlerRejects(c, e) /\ UNCHANGED <<sweep, loaderVars, late, serverVars>>
  \/ \E c \in calls : TimerElapses(c) /\ UNCHANGED <<sweep, loaderVars, late, serverVars>>

\* the event loop runs every timer that is due: a handler may hang (its
\* promise never settles), the timer of a suspended call does fire
SpecLive ==
  /\ Init /\ [][NextLive]_vars
  /\ \A c \in CallRecords :
       WF_vars(TimerElapses(c) /\ UNCHANGED <<sweep, loaderVars, late, serverVars>>)

\* the registry with the periodic health sweep running among its operations
NextSweep ==
  \/ \E d \in Descriptors : Register(d) /\ SweepDisturbed /\ UNCHANGED <<loaderVars, late, serverVars>>
  \/ \E r \in regs : InitializeResolves(r) /\ SweepDisturbed /\ UNCHANGED <<loaderVars, late, serverVars>>
  \/ \E r \in regs : InitializeRejects(r) /\ SweepDisturbed /\ UNCHANGED <<loaderVars, late, serverVars>>
  \/ \E n \in Names : Unregister(n) /\ SweepDisturbed /\ UNCHANGED <<loaderVars, late, serverVars>>
  \/ \E n \in Names, h \in BOOLEAN :
       SetHealthStatus(n, h) /\ SweepDisturbed /\ UNCHANGED <<loaderVars, late, serverVars>>
  \/ PerformHealthCheck /\ UNCHANGED <<loaderVars, late, serverVars>>
  \/ \E h \in BOOLEAN : HealthCheckResolves(h) /\ UNCHANGED <<loaderVars, late, serverVars>>
  \/ HealthCheckRejects /\ UNCHANGED <<loaderVars, late, serverVars>>

SpecSweep == Init /\ [][NextSweep]_vars

\* the start-up sequence alone
NextStart ==
  \/ LoadAll /\ UNCHANGED <<sweep, late, serverVars>>
  \/ \E fs \in SUBSET Files : GlobResolves(fs) /\ UNCHANGED <<sweep, late, serverVars>>
  \/ GlobRejects /\ UNCHANGED <<sweep, late, serverVars>>
  \/ \E l \in loads : ImportRejects(l) /\ UNCHANGED <<sweep, late, serverVars>>
  \/ \E l \in loads : \E m \in Modules(l.file) : ImportResolves(l, m) /\ UNCHANGED <<sweep, late, serverVars>>
  \/ \E l \in loads : RegisterResolves(l) /\ UNCHANGED <<sweep, late, serverVars>>
  \/ \E l \in loads : RegisterRejects(l) /\ UNCHANGED <<sweep, late, serverVars>>
  \/ LoadAllReturns /\ UNCHANGED <<sweep, late, serverVars>>

\* glob settles
GlobSettles ==
  (GlobRejects \/ \E fs \in SUBSET Files : GlobResolves(fs))
    /\ UNCHANGED <<sweep, late, serverVars>>

\* the import of some candidate settles
ImportSettles ==
  (\E l \in loads : ImportRejects(l) \/ \E m \in Modules(l.file) : ImportResolves(l, m))
    /\ UNCHANGED <<sweep, late, serverVars>>

\* the initialize() of some candidate settles
InitializeSettles ==
  (\E l \in loads : RegisterResolves(l) \/ RegisterRejects(l))
    /\ UNCHANGED <<sweep, late, serverVars>>

\* the start-up sequence when glob, every import and every initialize()
\* settle: the event loop then resumes loadAll
SpecStart ==
  /\ Init /\ [][NextStart]_vars
  /\ WF_vars(GlobSettles)
  /\ WF_vars(ImportSettles)
  /\ WF_vars(InitializeSettles)
  /\ WF_vars(LoadAllReturns /\ UNCHANGED <<sweep, late, serverVars>>)

\* registry, health sweep and executor together: every operation that reads
\* or writes a health flag, in any interleaving
NextAll ==
  \/ \E d \in Descriptors : Register(d) /\ SweepDisturbed /\ UNCHANGED <<loaderVars, late, serverVars>>
  \/ \E r \in regs : InitializeResolves(r) /\ SweepDisturbed /\ UNCHANGED <<loaderVars, late, serverVars>>
  \/ \E r \in regs : InitializeRejects(r) /\ SweepDisturbed /\ UNCHANGED <<loaderVars, late, serverVars>>
  \/ \E n \in Names : Unregister(n) /\ SweepDisturbed /\ UNCHANGED <<loaderVars, late, serverVars>>
  \/ \E n \in Names, h \in BOOLEAN :
       SetHealthStatus(n, h) /\ SweepDisturbed /\ UNCHANGED <<loaderVars, late, serverVars>>
  \/ PerformHealthCheck /\ UNCHANGED <<loaderVars, late, serverVars>>
  \/ \E h \in BOOLEAN : HealthCheckResolves(h) /\ UNCHANGED <<loaderVars, late, serverVars>>
  \/ HealthCheckRejects /\ UNCHANGED <<loaderVars, late, serverVars>>
  \/ \E n \in Names, r \in RaceRequests :
       Execute(n, r.method, r.params, r.timeout)
         /\ SweepDisturbed /\ UNCHANGED <<loaderVars, late, serverVars>>
  \/ \E c \in calls :
       HandlerResolves(c) /\ SweepDisturbed /\ UNCHANGED <<loaderVars, late, serverVars>>
  \/ \E c \in calls : \E e \in HandlerThrows(c.method) :
       HandlerRejects(c, e) /\ SweepDisturbed /\ UNCHANGED <<loaderVars, late, serverVars>>
  \/ \E c \in calls :
       TimerElapses(c) /\ SweepDisturbed /\ UNCHANGED <<loaderVars, late, serverVars>>

SpecAll == Init /\ [][NextAll]_vars

\* the start-up sequence (loadAll(), awaited before anything else runs) and
\* reloadTool() calls after it
NextLoad ==
  \/ LoadAll /\ UNCHANGED <<sweep, late, serverVars>>
  \/ \E fs \in SUBSET Files : GlobResolves(fs) /\ UNCHANGED <<sweep, late, serverVars>>
  \/ GlobRejects /\ UNCHANGED <<sweep, late, serverVars>>
  \/ \E l \in loads : ImportRejects(l) /\ UNCHANGED <<sweep, late, serverVars>>
  \/ \E l \in loads : \E m \in Modules(l.file) : ImportResolves(l, m) /\ UNCHANGED <<sweep, late, serverVars>>
  \/ \E l \in loads : RegisterResolves(l) /\ UNCHANGED <<sweep, late, serverVars>>
  \/ \E l \in loads : RegisterRejects(l) /\ UNCHANGED <<sweep, late, serverVars>>
  \/ LoadAllReturns /\ UNCHANGED <<sweep, late, serverVars>>
  \/ \E n \in Dirs : ReloadTool(n) /\ UNCHANGED <<sweep, late, serverVars>>
  \/ CreateApp /\ UNCHANGED <<sweep, late, closing, issued, auth, http>>
  \/ \E p \in {"/", "/tools"} : ListTools(p) /\ UNCHANGED <<sweep, late>>

SpecLoad == Init /\ [][NextLoad]_vars

----------------------------------------------------------------------------
(* The specification of authMiddleware *)

\* the requests authMiddleware sees, under every configuration of the key
NextAuth ==
  \/ \E k \in Keys :
       SetAuthorizationKey(k)
         /\ UNCHANGED <<tools, healthStatus, regs, calls, last, sweep, loaderVars, late>>
  \/ \E p \in Paths, h \in Authorizations :
       AuthMiddleware(p, h)
         /\ UNCHANGED <<tools, healthStatus, regs, calls, last, sweep, loaderVars, late>>

SpecAuth == Init /\ [][NextAuth]_vars

\* the outcomes of a POST: the transport answered, mcpServer.connect rejected,
\* transport.handleRequest rejected
PostOutcomes == {"handled", "connectFailed", "requestFailed"}

\* the process from main() on: loadAll, createApp, then the requests the
\* routers of the mounted tools handle; no reload
NextApp ==
  \/ LoadAll /\ UNCHANGED <<sweep, late, serverVars>>
  \/ \E fs \in SUBSET Files : GlobResolves(fs) /\ UNCHANGED <<sweep, late, serverVars>>
  \/ \E l \in loads : ImportRejects(l) /\ UNCHANGED <<sweep, late, serverVars>>
  \/ \E l \in loads : \E m \in Modules(l.file) : ImportResolves(l, m) /\ UNCHANGED <<sweep, late, serverVars>>
  \/ \E l \in loads : RegisterResolves(l) /\ UNCHANGED <<sweep, late, serverVars>>
  \/ \E l \in loads : RegisterRejects(l) /\ UNCHANGED <<sweep, late, serverVars>>
  \/ LoadAllReturns /\ UNCHANGED <<sweep, late, serverVars>>
  \/ CreateApp /\ UNCHANGED <<sweep, late, closing, issued, auth, http>>
  \/ \E n \in Names, h \in Headers, o \in PostOutcomes :
       Post(n, h, o) /\ UNCHANGED <<tools, healthStatus, regs, calls, last, sweep, loaderVars, late>>
  \/ \E n \in Names, h \in Headers :
       Get(n, h) /\ UNCHANGED <<tools, healthStatus, regs, calls, last, sweep, loaderVars, late>>
  \/ \E n \in Names, h \in Headers :
       Delete(n, h) /\ UNCHANGED <<tools, healthStatus, regs, calls, last, sweep, loaderVars, late>>
  \/ \E c \in closing :
       CloseResolves(c) /\ UNCHANGED <<tools, healthStatus, regs, calls, last, sweep, loaderVars, late>>

SpecApp == Init /\ [][NextApp]_vars

----------------------------------------------------------------------------
(* Vocabulary of the claims *)

\* the step that led here was (part of) an execute() call
ExecuteStep == last.op = "execute"

\* ... its synchronous prefix, from the call to the first await or return
ExecuteCallStep == ExecuteStep /\ last.race = ""

\* ... and the call settled in this step
ExecuteSettled == ExecuteStep /\ last.phase = "settled"

\* an Execution result value: {success:true, data} or {success:false, error:<string>}
IsExecutionResult(r) ==
  \/ DOMAIN r = {"success", "data"} /\ r.success = TRUE
  \/ DOMAIN r = {"success", "error"} /\ r.success = FALSE /\ r.error \in Seq(STRING)

Failure(text) == [success |-> FALSE, error |-> text]

HasConnectivityMarker(text) == Includes(text, "ECONNREFUSED") \/ Includes(text, "ENOTFOUND")

----------------------------------------------------------------------------
(* C1: execute never raises or rejects: whatever the registry holds and     *)
(* whatever the handler does, a settled call has returned an Execution      *)
(* result value.  The code rejects when the handler throws a value that     *)
(* String() cannot convert.                                                 *)
C1_ExecuteNeverRejects ==
  ExecuteSettled => (last.settled = "returned" /\ IsExecutionResult(last.result))

(* C2: execute on a tool name with no descriptor at call time returns a     *)
(* failure whose error names the tool as not found; no handler is invoked.  *)
C2_UnknownToolNotFound ==
  (ExecuteCallStep /\ ~last.found) =>
    /\ last.phase = "settled" /\ last.settled = "returned"
    /\ last.result = Failure(<<"Tool not found: ", last.name>>)
    /\ last.handlerCalls = 0

C2_Witness ==
  ExecuteCallStep /\ ~last.found /\ last.phase = "settled" /\ last.method = "add"

(* C3: execute on a registered tool with a method name the tool does not    *)
(* declare returns a not-found failure naming tool.method; no handler is    *)
(* invoked.                                                                 *)
C3_UnknownMethodNotFound ==
  (ExecuteCallStep /\ last.found /\ ~GetMethodsThrows(last.desc)
     /\ last.method \notin MethodNames(last.desc)) =>
    /\ last.phase = "settled" /\ last.settled = "returned"
    /\ last.result = Failure(<<"Method not found: ", last.name, ".", last.method>>)
    /\ last.handlerCalls = 0

C3_Witness ==
  ExecuteCallStep /\ last.desc = "calcV2" /\ last.method = "connect" /\ last.phase = "settled"

\* a parameter the method requires (no default) is missing or of the wrong type
RequiredParameterBad(m, params) ==
  \E k \in DOMAIN InputSchema(m) :
    /\ ~InputSchema(m)[k].hasDefault
    /\ (~params.object \/ params.fields[k].type # InputSchema(m)[k].type)

(* C4: execute on a registered method with a required typed parameter       *)
(* missing or of the wrong type returns a failure whose error starts with   *)
(* "Invalid parameters"; the handler is not invoked.                        *)
C4_InvalidParametersRejected ==
  (ExecuteCallStep /\ last.found /\ last.method \in MethodNames(last.desc)
     /\ RequiredParameterBad(last.method, last.params)) =>
    /\ last.phase = "settled" /\ last.settled = "returned"
    /\ DOMAIN last.result = {"success", "error"}
    /\ last.result.success = FALSE
    /\ Len(last.result.error) >= 1 /\ last.result.error[1] = "Invalid parameters: "
    /\ last.handlerCalls = 0

C4_Witness ==
  /\ ExecuteCallStep /\ last.desc = "calcV1" /\ last.method = "add"
  /\ last.params = Obj(Str("x"), Num(3), Undefined)
  /\ last.phase = "settled"

\* the parse result of valid params, stated per method: the declared keys
\* only, an undefined key with a default replaced by the default
ValidatedParameters(m, params) ==
  CASE m = "add" -> [a |-> params.fields.a, b |-> params.fields.b]
    [] m = "get_current_time" ->
         [timezone |-> IF params.fields.timezone = Undefined
                         THEN Str("Etc/UTC") ELSE params.fields.timezone]
    [] OTHER -> [k \in {} |-> Undefined]

(* C5: with valid params the handler is invoked once with the validated     *)
(* parameters (defaults substituted, undeclared keys stripped), and when    *)
(* the handler returns v before the timer elapses the call returns          *)
(* {success:true, data:v}.                                                  *)
C5_SuccessCarriesHandlerValue ==
  /\ (ExecuteStep /\ last.phase = "invoked") =>
       /\ last.handlerCalls = 1
       /\ last.handlerArg = ValidatedParameters(last.method, last.params)
  /\ (ExecuteSettled /\ last.race = "handler" /\ last.thrown.kind = "none") =>
       /\ last.settled = "returned"
       /\ last.result = [success |-> TRUE, data |-> HandlerData(last.method, last.handlerArg)]
       /\ (last.method = "add" /\ last.handlerArg = [a |-> Num(2), b |-> Num(3)]
             => last.result.data = Num(5))

C5_Witness ==
  /\ ExecuteSettled /\ last.race = "handler" /\ last.settled = "returned"
  /\ last.result = [success |-> TRUE, data |-> Str("Etc/UTC")]

(* C6: when the timer elapses before the handler settles, the call returns  *)
(* a failure whose error contains "timeout", the timer was set to the       *)
(* caller's timeout if given and to the default otherwise, and no health    *)
(* flag changes in that step.                                               *)
C6_TimeoutLeavesHealth ==
  [][ /\ (last'.op = "execute" /\ last'.phase = "invoked") =>
           last'.ms = (IF last'.timeout = Undefined THEN DefaultTimeout ELSE last'.timeout.num)
      /\ (last'.op = "execute" /\ last'.race = "timer") =>
           /\ last'.phase = "settled" /\ last'.settled = "returned"
           /\ DOMAIN last'.result = {"success", "error"}
           /\ last'.result.success = FALSE
           /\ Includes(last'.result.error, "timeout")
           /\ Includes(last'.result.error, NumberToString(last'.ms))
           /\ healthStatus' = healthStatus
    ]_vars

C6_Witness ==
  /\ ExecuteSettled /\ last.race = "timer" /\ last.ms = ShortTimeout
  /\ MapHas(healthStatus, last.name) /\ healthStatus[last.name] = TRUE

\* the step resumes an execute() on a tool that is registered and healthy,
\* with the handler having thrown an Error object
HandlerErrorOnHealthyTool ==
  /\ last'.op = "execute" /\ last'.race = "handler" /\ last'.thrown.kind = "Error"
  /\ MapHas(tools, last'.name)
  /\ MapHas(healthStatus, last'.name) /\ healthStatus[last'.name] = TRUE

(* C7 as stated: a handler error whose text contains a connectivity marker  *)
(* makes the tool unhealthy.  It fails for a text that also contains the    *)
(* timeout marker.                                                          *)
C7_AnyConnectivityTextUnhealthy ==
  [][ (HandlerErrorOnHealthyTool /\ HasConnectivityMarker(last'.thrown.text)) =>
        healthStatus'[last'.name] = FALSE
    ]_vars

(* C7 as amended: a handler Error whose text contains a connectivity marker *)
(* and no timeout marker makes the healthy tool unhealthy and removes it    *)
(* from getHealthyTools(); any other handler Error leaves it healthy; the   *)
(* result is the failure carrying the error text in both cases.             *)
C7_ConnectivityErrorUnhealthy ==
  [][ HandlerErrorOnHealthyTool =>
        /\ last'.settled = "returned"
        /\ last'.result = Failure(last'.thrown.text)
        /\ IF HasConnectivityMarker(last'.thrown.text) /\ ~Includes(last'.thrown.text, "timeout")
             THEN /\ healthStatus'[last'.name] = FALSE
                  /\ last'.name \notin {ToolName(d) : d \in getHealthyTools'}
             ELSE healthStatus'[last'.name] = TRUE
    ]_vars

C7_Witness ==
  /\ ExecuteSettled /\ last.race = "handler"
  /\ last.thrown = ErrorObj(<<"getaddrinfo", "ENOTFOUND">>)
  /\ MapHas(tools, last.name) /\ healthStatus[last.name] = FALSE
  /\ last.healthWrites = {last.name}

(* C8: a thrown value that is not an Error object, whose text contains a    *)
(* connectivity marker and no timeout marker, makes execute call            *)
(* setHealthStatus(toolName, false).  The code classifies Error objects     *)
(* only.                                                                    *)
C8_NonErrorClassifiedByText ==
  (ExecuteSettled /\ last.race = "handler" /\ last.thrown.kind = "string"
     /\ HasConnectivityMarker(last.thrown.text) /\ ~Includes(last.thrown.text, "timeout"))
    => last.healthWrites = {last.name}

\* the step settled a register() call
RegisterSettled == last.op = "register" /\ last.phase = "settled"

(* C9: when register(tool) completes successfully, initialize (if any) was  *)
(* invoked exactly once, getTool(tool.name) is that descriptor and its      *)
(* health flag is true, whatever was stored under the name before.          *)
C9_RegisterInstalls ==
  (RegisterSettled /\ last.settled = "resolved") =>
    /\ getTool(last.name) = last.desc
    /\ MapHas(healthStatus, last.name) /\ healthStatus[last.name] = TRUE
    /\ getToolStatus(last.name).healthy = TRUE
    /\ last.desc \in getHealthyTools
    /\ last.initializeCalls = (IF HasInitialize(last.desc) THEN 1 ELSE 0)

C9_Witness ==
  /\ RegisterSettled /\ last.settled = "resolved"
  /\ last.desc = "calcV2" /\ last.found /\ ~last.fresh

(* C10: when register(tool) fails for a name that had no descriptor before  *)
(* the call, health=false is recorded for the name and the descriptor is    *)
(* not inserted: getTool and getToolStatus are absent, and the tool is in   *)
(* neither getAllTools() nor getHealthyTools().  The code inserts the       *)
(* descriptor before the getMethods() call of its log line can throw.       *)
C10_FailedFreshRegisterNotInserted ==
  (RegisterSettled /\ last.settled = "rejected" /\ last.fresh) =>
    /\ MapHas(healthStatus, last.name) /\ healthStatus[last.name] = FALSE
    /\ getTool(last.name) = ""
    /\ ~getToolStatus(last.name).present
    /\ last.desc \notin getAllTools
    /\ last.desc \notin getHealthyTools

----------------------------------------------------------------------------
(* More vocabulary: the registry as its callers see it *)

\* the step that led here was the catch of register() after a throwing initialize()
InitializeFailed(ev) ==
  /\ ev.op = "register" /\ ev.phase = "settled" /\ ev.settled = "rejected"
  /\ ev.initializeCalls = 1 /\ ev.thrown = ErrorObj(<<"Init failed">>)

\* name m has the same descriptor (or none) before and after the step
SameDescriptor(m) ==
  /\ MapHas(tools', m) = MapHas(tools, m)
  /\ MapHas(tools, m) => tools'[m] = tools[m]

\* name m has the same health flag (or none) before and after the step
SameFlag(m) ==
  /\ MapHas(healthStatus', m) = MapHas(healthStatus, m)
  /\ MapHas(healthStatus, m) => healthStatus'[m] = healthStatus[m]

(* C11: when the initialize() of a replacement fails while the name has a   *)
(* live descriptor, getTool(name) still returns that descriptor, the name's *)
(* health flag is false and the installed tool is not in getHealthyTools(). *)
C11_FailedReplacementKeepsOld ==
  [][ (InitializeFailed(last') /\ MapHas(tools, last'.name)) =>
        /\ MapHas(tools', last'.name) /\ tools'[last'.name] = tools[last'.name]
        /\ MapHas(healthStatus', last'.name) /\ healthStatus'[last'.name] = FALSE
        /\ tools[last'.name] \notin getHealthyTools' ]_vars

C11_Witness ==
  /\ InitializeFailed(last) /\ ~last.fresh /\ last.found
  /\ last.desc = "calcV2" /\ getTool("calc") = "calcV1"
  /\ healthStatus["calc"] = FALSE

(* C12: in every reachable state getHealthyTools() is exactly the set of    *)
(* descriptors of the names whose health flag is true, which are the names  *)
(* whose status view in getAllToolStatus() has healthy = true; a tool whose *)
(* initialize() threw during a fresh registration is not in the set.        *)
C12_HealthyToolsAreTheFlaggedOnes ==
  /\ getHealthyTools =
       {tools[n] : n \in {m \in DOMAIN tools \cap DOMAIN healthStatus : healthStatus[m]}}
  /\ {ToolName(d) : d \in getHealthyTools} =
       {v.name : v \in {w \in getAllToolStatus : w.healthy}}
  /\ (InitializeFailed(last) /\ last.fresh) =>
       /\ last.desc \notin getHealthyTools
       /\ \A d \in getHealthyTools : ToolName(d) # last.name

C12_Witness ==
  /\ InitializeFailed(last) /\ last.fresh /\ last.desc = "calcV2"
  /\ getHealthyTools = {"timeV1"}
  /\ getTool("calc") = "calcV1"

(* C13: unregister(name) returns true exactly when the name had a           *)
(* descriptor; when it returns the name has neither descriptor nor health   *)
(* flag, and the descriptor and flag of every other name are as before.     *)
C13_UnregisterRemovesBoth ==
  [][ \A n \in Names : (last'.op = "unregister" /\ last'.name = n) =>
        /\ last'.value = MapHas(tools, n)
        /\ ~MapHas(tools', n)
        /\ ~MapHas(healthStatus', n)
        /\ ~getToolStatus(n)'.present
        /\ \A m \in Names \ {n} : SameDescriptor(m) /\ SameFlag(m) ]_vars

C13_Witness ==
  /\ last.op = "unregister" /\ last.value /\ last.name = "calc"
  /\ getTool("time") = "timeV1" /\ healthStatus["time"] = TRUE

(* C14: setHealthStatus(name, healthy) overwrites the flag of a name that   *)
(* has a descriptor and changes nothing otherwise: it creates no flag and   *)
(* no status view for a name without descriptor, and touches no other       *)
(* name's flag and no descriptor.                                           *)
C14_SetHealthStatusFrame ==
  [][ \A n \in Names : (last'.op = "setHealthStatus" /\ last'.name = n) =>
        /\ tools' = tools
        /\ \A m \in Names \ {n} : SameFlag(m)
        /\ IF MapHas(tools, n)
             THEN /\ MapHas(healthStatus', n)
                  /\ healthStatus'[n] = last'.healthy
                  /\ getToolStatus(n)'.healthy = last'.healthy
             ELSE /\ SameFlag(n)
                  /\ ~getToolStatus(n)'.present ]_vars

C14_Witness ==
  /\ last.op = "setHealthStatus" /\ ~last.found /\ last.healthy
  /\ ~MapHas(healthStatus, last.name)
  /\ DOMAIN tools # {}

(* C15: when performHealthCheck() completes (no other operation having run  *)
(* since it began), the flag of every registered tool with a healthCheck is *)
(* the boolean its check returned, or false if the check threw, and the     *)
(* flag of every tool without healthCheck is what it was before the call.   *)
C15_SweepRecordsVerdicts ==
  (last.op = "performHealthCheck" /\ last.phase = "completed" /\ last.clean) =>
    \A n \in DOMAIN tools :
      IF HasHealthCheck(tools[n])
        THEN /\ MapHas(last.verdicts, n)
             /\ MapHas(healthStatus, n)
             /\ healthStatus[n] = (last.verdicts[n] = "true")
        ELSE /\ ~MapHas(last.verdicts, n)
             /\ MapHas(healthStatus, n) = MapHas(last.prior, n)
             /\ MapHas(healthStatus, n) => healthStatus[n] = last.prior[n]

C15_Witness ==
  /\ last.op = "performHealthCheck" /\ last.phase = "completed" /\ last.clean
  /\ getTool("calc") = "calcV1" /\ healthStatus["calc"] = TRUE
  /\ getTool("time") = "timeV1" /\ last.verdicts["time"] = "threw"
  /\ last.prior["time"] = TRUE

(* C16: in every state reachable by interleaving register, unregister,      *)
(* setHealthStatus and performHealthCheck (execute writes the registry only *)
(* through setHealthStatus), every name that has a descriptor has a boolean *)
(* health flag.                                                             *)
C16_DescriptorHasFlag ==
  \A n \in DOMAIN tools : MapHas(healthStatus, n) /\ healthStatus[n] \in BOOLEAN

C16_Witness ==
  /\ last.op = "performHealthCheck" /\ ~last.found
  /\ MapHas(healthStatus, last.name) /\ ~MapHas(tools, last.name)
  /\ DOMAIN tools # {}
  /\ regs # {}

----------------------------------------------------------------------------
(* More vocabulary: the loader as its callers see it *)

\* loadAll() has just returned after enumerating its candidates
LoadAllReturned == seen.op = "loadAll" /\ seen.phase = "settled" /\ ~seen.globFailed

\* the candidates of the loadAll() call that failed to activate
FailedCandidates == {f \in seen.candidates : seen.results[f].cause # "ok"}

\* the report and the registry the claim expects after one failure among N
OneFailureIsolated ==
  /\ seen.succeeded = Cardinality(seen.candidates) - 1
  /\ seen.failed = 1
  /\ \A f \in seen.candidates \ FailedCandidates :
       /\ getTool(ToolName(seen.results[f].desc)) = seen.results[f].desc
       /\ MapHas(healthStatus, ToolName(seen.results[f].desc))
       /\ healthStatus[ToolName(seen.results[f].desc)] = TRUE

(* C17: loadAll() over N candidates of which exactly one fails to activate  *)
(* leaves the other N-1 registered with health true and reports N-1         *)
(* succeeded / 1 failed, in whatever order the loads complete.  The code    *)
(* fails it when the failing candidate declares the name of another one:    *)
(* index.ts and index.js of one directory are both candidates.              *)
C17_OneFailureLeavesOthers ==
  (LoadAllReturned /\ Cardinality(FailedCandidates) = 1) => OneFailureIsolated

(* C18: loadAll() never raises: failures of single candidates are absorbed, *)
(* and a failure of the enumeration is treated as no tool found: register   *)
(* is called for no candidate and the registry is unchanged.                *)
C18_LoadAllNeverRaises ==
  [][ (seen'.op = "loadAll" /\ seen'.phase = "settled") =>
        /\ seen'.settled = "returned"
        /\ seen'.globFailed =>
             /\ seen'.registerCalls = 0
             /\ tools' = tools /\ healthStatus' = healthStatus
             /\ regs' = regs /\ loads' = loads ]_vars

C18_Witness ==
  /\ seen.op = "loadAll" /\ seen.phase = "settled" /\ seen.globFailed
  /\ seen.settled = "returned" /\ tools = EmptyMap /\ loads = {}

(* C19: a loaded unit reaches register() only if it has a default export    *)
(* with a non-empty name and getMethods; a unit missing any of these is     *)
(* rejected with a failure, register() is not called for it and no          *)
(* descriptor or health flag changes.                                       *)
C19_OnlyValidModulesRegister ==
  [][ seen'.imported =>
        IF seen'.module.hasDefault /\ seen'.module.hasName /\ seen'.module.hasGetMethods
          THEN TRUE
          ELSE /\ seen'.registerCalls = 0
               /\ seen'.loadSettled = "rejected"
               /\ seen'.cause \in {"nodefault", "shape"}
               /\ tools' = tools /\ healthStatus' = healthStatus /\ regs' = regs ]_vars

C19_Witness ==
  /\ seen.imported /\ seen.module = Module(TRUE, TRUE, FALSE, "timeV1")
  /\ seen.loadSettled = "rejected" /\ seen.cause = "shape"
  /\ DOMAIN tools # {}

(* C20: reloadTool(name) calls unregister(name) before it attempts the      *)
(* load, and a failure of the load propagates to the caller.                *)
C20_ReloadUnregistersFirst ==
  /\ (seen.op = "reloadTool" /\ seen.phase = "importing") =>
       /\ seen.unregisterCalls = 1 /\ seen.registerCalls = 0
       /\ last.op = "unregister" /\ last.name = seen.name
       /\ ~MapHas(tools, seen.name) /\ ~MapHas(healthStatus, seen.name)
       /\ \E l \in loads :
            l.owner = "reloadTool" /\ l.file = EntryOf(seen.name) /\ l.stage = "import"
  /\ (seen.op = "reloadTool" /\ seen.loadSettled = "rejected") =>
       /\ seen.settled = "rejected"
       /\ seen.thrown = LoadError(seen.cause, seen.name)
       /\ seen.thrown.kind = "Error"

C20_Witness ==
  /\ seen.op = "reloadTool" /\ seen.loadSettled = "rejected"
  /\ seen.cause = "initialize" /\ seen.name = "calc"
  /\ getTool("time") = "timeV1"

----------------------------------------------------------------------------
(* More vocabulary: calls in flight *)

\* the results a call in flight can end with: the value its handler resolves
\* with, a failure carrying what its handler threw, the failure of its timer,
\* or the rejection of a thrown value that has no string form
OutcomesOf(c) ==
  {[success |-> TRUE, data |-> HandlerData(c.method, c.arg)]}
    \cup {Failure(ErrorMessage(e)) : e \in {x \in HandlerThrows(c.method) : ~StringThrows(x)}}
    \cup {Failure(ErrorMessage(TimeoutError(c.ms)))}
    \cup {[threw |-> "TypeError"]}

(* C21: register, unregister and setHealthStatus are atomic with respect to *)
(* the event loop: a register call runs from its check to its writes in one *)
(* step, and no registry operation or lookup runs while a register call is  *)
(* in the middle.  The code awaits tool.initialize() between the check and  *)
(* the writes.                                                              *)
C21_RegistryOperationsAtomic ==
  /\ last.op = "register" => last.phase = "settled"
  /\ last.op \in {"register", "unregister", "setHealthStatus", "execute"} => regs = {}

(* C22: when the name of a call in flight has been re-registered or         *)
(* unregistered since the call's lookup, the call still completes against   *)
(* the descriptor of its lookup: its result is an outcome of that handler   *)
(* or the timeout, never a not-found failure.                               *)
C22_InFlightCallKeepsDescriptor ==
  [][ \A c \in calls : (c \notin calls' /\ getTool(c.name) # c.desc) =>
        /\ last'.op = "execute" /\ last'.phase = "settled"
        /\ last'.desc = c.desc
        /\ last'.race \in {"handler", "timer"}
        /\ last'.result \in OutcomesOf(c)
        /\ last'.result # Failure(ToolNotFoundText(c.name))
        /\ last'.result # Failure(MethodNotFoundText(c.name, c.method)) ]_vars

C22_Witness ==
  /\ ExecuteSettled /\ last.race = "handler" /\ last.method = "connect"
  /\ last.desc = "calcV1" /\ getTool("calc") = "calcV2"
  /\ last.result = [success |-> TRUE, data |-> Str("connected")]

(* C23: the outcome of a call is decided by whichever of handler and timer  *)
(* comes first, and the other event, when it comes, is discarded: it        *)
(* changes no descriptor, no health flag and no call, whatever the handler  *)
(* then resolves with or throws.  The loser is left pending when the race   *)
(* settles: the handler is not cancelled.                                   *)
C23_LoserOfRaceDiscarded ==
  [][ /\ last'.phase = "late" =>
           /\ tools' = tools /\ healthStatus' = healthStatus
           /\ calls' = calls /\ regs' = regs
      /\ \A c \in calls : c \notin calls' =>
           IF last'.race = "timer"
             THEN /\ last'.result = Failure(ErrorMessage(TimeoutError(c.ms)))
                  /\ Leftover(c, "handler") \in late'
             ELSE /\ last'.race = "handler"
                  /\ last'.result \in OutcomesOf(c)
                  /\ Leftover(c, "timer") \in late' ]_vars

C23_Witness ==
  /\ last.op = "execute" /\ last.phase = "late" /\ last.race = "handler"
  /\ last.thrown = ErrorObj(<<"connect", "ECONNREFUSED">>)
  /\ getTool("calc") = "calcV1" /\ healthStatus["calc"] = TRUE

(* C24: every execute call that suspends eventually returns: a handler that *)
(* never settles cannot keep its caller waiting, because the timer of the   *)
(* effective timeout elapses.                                               *)
C24_ExecuteEventuallyReturns ==
  /\ [](calls \subseteq CallRecords)
  /\ \A c \in CallRecords : (c \in calls) ~> (c \notin calls)

C24_Witness ==
  /\ ExecuteSettled /\ last.race = "timer" /\ last.ms = DefaultTimeout
  /\ last.result = Failure(ErrorMessage(TimeoutError(DefaultTimeout)))

\* what isCriticalError is specified to recognise: an Error whose text has a
\* connectivity marker and no timeout marker
CriticalFailure(error) ==
  /\ error.kind = "Error"
  /\ HasConnectivityMarker(error.text)
  /\ ~Includes(error.text, "timeout")

(* C25: within one execute call the steps are ordered resolve tool, resolve *)
(* method, validate, invoke, classify: the handler is invoked at most once  *)
(* and only after the three checks succeeded, and the classification of a   *)
(* failure (with its possible health write) runs only after an invocation.  *)
(* The try of execute() also covers getMethods(), so its catch classifies   *)
(* a failure that precedes any invocation.                                  *)
C25_StepsStrictlyOrdered ==
  ExecuteStep =>
    /\ last.handlerCalls \in {0, 1}
    /\ last.handlerCalls = 1 =>
         /\ last.desc # "" /\ ~GetMethodsThrows(last.desc)
         /\ last.method \in MethodNames(last.desc)
         /\ ExecuteCallStep => safeParse(InputSchema(last.method), last.params).success
    /\ last.thrown.kind # "none" => last.handlerCalls = 1
    /\ last.healthWrites # {} => last.handlerCalls = 1

(* C26: the executor writes to the registry only on a classified critical   *)
(* failure: every other outcome of execute(T, ...) leaves every descriptor  *)
(* and every health flag as it was, and a critical failure changes only the *)
(* health flag of T, to false.                                              *)
C26_ExecutorWritesOnlyOnCritical ==
  [][ last'.op = "execute" =>
        /\ tools' = tools
        /\ \A n \in Names : ~SameFlag(n) =>
             /\ n = last'.name
             /\ last'.phase = "settled"
             /\ CriticalFailure(last'.thrown)
             /\ last'.result = Failure(ErrorMessage(last'.thrown))
             /\ healthStatus'[n] = FALSE ]_vars

C26_Witness ==
  /\ ExecuteSettled /\ last.name = "calc" /\ last.healthWrites = {"calc"}
  /\ getTool("calc") = "calcV1" /\ getTool("time") = "timeV1"
  /\ healthStatus["calc"] = FALSE /\ healthStatus["time"] = TRUE

(* C27: load isolation: during loadAll() a candidate whose load fails       *)
(* changes neither the descriptor nor the health flag of a tool another     *)
(* candidate registered, in every completion order and also when two        *)
(* candidates declare the same tool name; after loadAll() every tool whose  *)
(* own candidate loaded successfully is in getHealthyTools().  The catch of *)
(* register() writes the flag of the name, whoever installed the descriptor.*)
C27_LoadIsolation ==
  /\ (seen.op = "loadTool" /\ seen.loadSettled = "rejected") =>
       \A f \in DOMAIN bulk.results \ {seen.file} :
         (/\ bulk.results[f].status = "fulfilled"
          /\ getTool(ToolName(bulk.results[f].desc)) = bulk.results[f].desc) =>
           bulk.results[f].desc \in getHealthyTools
  /\ LoadAllReturned =>
       \A f \in seen.candidates :
         seen.results[f].status = "fulfilled" => seen.results[f].desc \in getHealthyTools

(* C28: createApp, which main() calls only after loadAll() has returned,    *)
(* mounts /mcp/{name} for exactly the tools that getHealthyTools() returns  *)
(* at that moment: a tool that is absent, or registered with health flag    *)
(* false, gets no endpoint; the endpoints do not follow later reloads.      *)
C28_MountsExactlyHealthyTools ==
  /\ app.created => bulk.phase = "done"
  /\ (seen.op = "createApp" /\ seen.settled = "returned") =>
       /\ app.created
       /\ \A n \in Names :
            n \in app.mounted <=> (MapHas(tools, n) /\ MapHas(healthStatus, n) /\ healthStatus[n] = TRUE)

\* createApp ran while calc was registered but unhealthy: only time is mounted
C28_Witness ==
  /\ seen.op = "createApp"
  /\ getTool("calc") = "calcV1"
  /\ healthStatus["calc"] = FALSE
  /\ app.mounted = {"time"}

\* the step answered a request of this kind
Answered(op) == http.op = op /\ http.phase = "answered"

\* the session protocol as far as one answered request shows it
SessionAnswer ==
  /\ (Answered("GET") /\ MissingSessionId(http.header)) =>
       (http.status = 400 /\ http.by = "router")
  /\ (Answered("GET") /\ ~MissingSessionId(http.header)
        /\ http.header.id \notin transports[http.tool]) =>
       (http.status = 404 /\ http.by = "router")
  /\ (Answered("DELETE") /\ MissingSessionId(http.header)) => http.status = 400
  /\ (Answered("DELETE") /\ ~MissingSessionId(http.header)) =>
       /\ http.status = 204
       /\ http.header.id \notin transports[http.tool]

BearerOf(key) == <<"Bearer", Space>> \o key.value

\* "Bearer", one space, and a token without a space
WellFormed(header) ==
  /\ header.present
  /\ Len(header.value) = 3
  /\ header.value[1] = "Bearer" /\ header.value[2] = Space /\ header.value[3] # Space

\* authMiddleware handled a request that needs the key
AuthRequired ==
  /\ auth.op = "authMiddleware"
  /\ auth.key.set /\ auth.key.value # <<>>
  /\ auth.path \notin {"/", "/health"}

(* C30: Bearer authentication: with AUTHORIZATION_KEY configured, a request *)
(* for a path other than '/' and '/health' is passed on (next called) only  *)
(* if its Authorization header is exactly 'Bearer <key>'; a missing or      *)
(* malformed header is answered 401, a well-formed one with another token   *)
(* 403, and next is not called then.  Requests for '/' and '/health', and   *)
(* every request when no key is configured, are passed on.                  *)
C30_BearerAuthentication ==
  /\ AuthRequired =>
       /\ auth.nextCalls = 1 =>
            (auth.header.present /\ auth.header.value = BearerOf(auth.key))
       /\ ~WellFormed(auth.header) => (auth.status = 401 /\ auth.nextCalls = 0)
       /\ (WellFormed(auth.header) /\ auth.header.value # BearerOf(auth.key)) =>
            (auth.status = 403 /\ auth.nextCalls = 0)
  /\ (auth.op = "authMiddleware" /\ ~AuthRequired) =>
       (auth.nextCalls = 1 /\ auth.status = 0)

\* with the key 'secret', 'Bearer wrong' for /tools was answered 403
C30_Witness ==
  /\ AuthRequired
  /\ auth.key.value = <<"secret">>
  /\ auth.path = "/tools"
  /\ auth.header.value = <<"Bearer", Space, "wrong">>
  /\ auth.status = 403
  /\ auth.nextCalls = 0

(* C31: the timeout marker takes precedence: an execute that ends with a    *)
(* failure whose text contains "timeout" returns that failure and changes   *)
(* no health flag, whether the timer raised it or the handler threw it, and *)
(* also when the text contains a connectivity marker as well.               *)
C31_TimeoutMarkerNeverCritical ==
  [][ (/\ last'.op = "execute" /\ last'.phase = "settled"
       /\ last'.thrown.kind # "none"
       /\ Includes(last'.thrown.text, "timeout")) =>
        /\ ~isCriticalError(last'.thrown)
        /\ last'.result = Failure(last'.thrown.text)
        /\ last'.healthWrites = {}
        /\ healthStatus' = healthStatus ]_vars

\* the handler of a healthy tool threw 'timeout ... ECONNREFUSED'
C31_Witness ==
  /\ ExecuteSettled /\ last.race = "handler"
  /\ last.thrown = ErrorObj(<<"timeout", "ECONNREFUSED">>)
  /\ getTool("calc") = "calcV1" /\ healthStatus["calc"] = TRUE

\* a reloadTool() call has just returned normally; SpecLoad runs one reload
\* at a time, after loadAll() has returned, and no other registry operation
ReloadSucceeded ==
  seen.op = "reloadTool" /\ seen.phase = "settled" /\ seen.settled = "resolved"

ReloadFailed ==
  seen.op = "reloadTool" /\ seen.phase = "settled" /\ seen.settled = "rejected"

(* C32: after reloadTool(name) has completed successfully, with no          *)
(* concurrent registry operation, the registry holds under name the         *)
(* descriptor just loaded from name's entry file, with health flag true     *)
(* (so that nothing older from that location can be installed under name).  *)
(* reloadTool unregisters the directory name but loadTool registers under   *)
(* the name the tool declares.                                              *)
C32_ReloadInstallsFreshDescriptor ==
  ReloadSucceeded =>
    /\ MapHas(tools, seen.name)
    /\ tools[seen.name] \in ExportedBy(EntryOf(seen.name))
    /\ ToolName(tools[seen.name]) = seen.name
    /\ MapHas(healthStatus, seen.name) /\ healthStatus[seen.name] = TRUE

(* C33: reloadTool does not roll back: when reloadTool(name) fails for a    *)
(* name that had a live healthy descriptor, then afterwards getTool(name)   *)
(* is absent, name is not in getHealthyTools(), and the descriptor that was *)
(* serving is not restored.  register() inserts the descriptor before the   *)
(* getMethods() of its log line throws (C10), so a failed reload can leave  *)
(* the new descriptor installed.                                            *)
C33_FailedReloadLeavesNameAbsent ==
  (ReloadFailed /\ seen.unregistered # "") =>
    /\ ~MapHas(tools, seen.name)
    /\ seen.name \notin {ToolName(d) : d \in getHealthyTools}

\* the flag of name n goes from false to true in this step
BecomesHealthy(n) ==
  /\ MapHas(healthStatus, n) /\ healthStatus[n] = FALSE
  /\ MapHas(healthStatus', n) /\ healthStatus'[n] = TRUE

(* C34: no execute call changes a health flag from false to true, however   *)
(* it ends; a flag goes from false to true only in a register that          *)
(* succeeds, in setHealthStatus(name, true), or in a performHealthCheck     *)
(* whose check of that tool returned true.                                  *)
C34_ExecuteNeverRestoresHealth ==
  [][ \A n \in Names : BecomesHealthy(n) =>
        /\ last'.op # "execute"
        /\ last'.name = n
        /\ \/ last'.op = "register" /\ last'.settled = "resolved"
           \/ last'.op = "setHealthStatus" /\ last'.healthy = TRUE
           \/ last'.op = "performHealthCheck" /\ last'.healthy = TRUE ]_vars

\* a call on the unhealthy calc succeeded and calc is still unhealthy
C34_Witness ==
  /\ ExecuteSettled /\ last.name = "calc" /\ last.race = "handler"
  /\ last.result = [success |-> TRUE, data |-> Str("connected")]
  /\ getTool("calc") = "calcV1"
  /\ healthStatus["calc"] = FALSE

\* the step was (part of) an execute() on a registered tool whose health
\* flag is false
ExecuteOnUnhealthy ==
  /\ ExecuteStep
  /\ MapHas(tools, last.name)
  /\ MapHas(healthStatus, last.name) /\ healthStatus[last.name] = FALSE

(* C35: execute does not consult the health flag: on a registered tool      *)
(* whose flag is false it still resolves the method, validates the          *)
(* parameters and invokes the handler, and every failure it returns has a   *)
(* cause of its own (unknown method, invalid parameters, a thrown value or  *)
(* the timer); a success can be returned.                                   *)
C35_ExecuteIgnoresHealthFlag ==
  ExecuteOnUnhealthy =>
    /\ (/\ ExecuteCallStep
        /\ last.desc = tools[last.name]
        /\ ~GetMethodsThrows(last.desc)
        /\ last.method \in MethodNames(last.desc)
        /\ safeParse(InputSchema(last.method), last.params).success) =>
         (last.phase = "invoked" /\ last.handlerCalls = 1)
    /\ (ExecuteSettled /\ last.settled = "returned" /\ last.result.success = FALSE) =>
         \/ last.thrown.kind # "none"
         \/ last.result = Failure(ToolNotFoundText(last.name)) /\ ~last.found
         \/ /\ last.result = Failure(MethodNotFoundText(last.name, last.method))
            /\ last.method \notin MethodNames(last.desc)
         \/ /\ ~safeParse(InputSchema(last.method), last.params).success
            /\ last.result =
                 Failure(InvalidParametersText(safeParse(InputSchema(last.method), last.params).message))

\* add(2, 3) on the unhealthy calcV2 returned 5
C35_Witness ==
  /\ ExecuteOnUnhealthy /\ ExecuteSettled
  /\ last.desc = "calcV2" /\ getTool("calc") = "calcV2"
  /\ last.method = "add"
  /\ last.result = [success |-> TRUE, data |-> Num(5)]

(* C36: a critical failure of an in-flight execute on name T writes         *)
(* health = false for T exactly when T has a descriptor at the time the     *)
(* failure is classified, whether or not it is the descriptor the call was  *)
(* dispatched to: a replacement registered meanwhile becomes unhealthy, and *)
(* after an unregister meanwhile no flag is written.                        *)
C36_CriticalFailureWritesCurrentName ==
  [][ \A c \in calls :
        (c \notin calls' /\ last'.race = "handler" /\ CriticalFailure(last'.thrown)) =>
          /\ last'.desc = c.desc
          /\ IF MapHas(tools, c.name)
               THEN /\ healthStatus' = MapSet(healthStatus, c.name, FALSE)
                    /\ last'.healthWrites = {c.name}
               ELSE healthStatus' = healthStatus ]_vars

\* the call was dispatched to calcV1, calcV2 replaced it, and the critical
\* failure of calcV1's handler made calcV2 unhealthy
C36_WitnessReplaced ==
  /\ ExecuteSettled /\ last.race = "handler" /\ CriticalFailure(last.thrown)
  /\ last.desc = "calcV1" /\ getTool("calc") = "calcV2"
  /\ healthStatus["calc"] = FALSE
  /\ ~MapHas(tools, "time") /\ ~MapHas(healthStatus, "time")

\* the entries a suspended sweep has still to check: registered, with healthCheck
StillToCheck ==
  {sweep.rest[i] : i \in {k \in 1..Len(sweep.rest) :
                           MapHas(tools, sweep.rest[k]) /\ HasHealthCheck(tools[sweep.rest[k]])}}

(* C37: performHealthCheck isolates the tools from each other: when the     *)
(* healthCheck of one tool throws, only that tool's flag is written, to     *)
(* false, the sweep goes on to check the remaining registered tools, and    *)
(* performHealthCheck never rejects.                                        *)
C37_SweepIsolatesThrowingCheck ==
  [][ /\ (last'.op = "performHealthCheck" /\ last'.phase = "completed") =>
           last'.settled = "returned"
      /\ (sweep.active /\ last'.op = "performHealthCheck" /\ last'.thrown.kind # "none") =>
           /\ tools' = tools
           /\ healthStatus' = MapSet(healthStatus, sweep.name, FALSE)
           /\ \A n \in Names \ {sweep.name} : SameFlag(n)
           /\ IF StillToCheck = {}
                THEN ~sweep'.active /\ last'.phase = "completed"
                ELSE /\ sweep'.active /\ last'.phase = "awaiting"
                     /\ sweep'.name \in StillToCheck ]_vars

\* the check of one tool threw and the sweep is now awaiting the check of the other
C37_Witness ==
  /\ last.op = "performHealthCheck" /\ last.thrown.kind = "Error" /\ last.phase = "awaiting"
  /\ sweep.active /\ sweep.name # last.name
  /\ MapHas(tools, last.name) /\ healthStatus[last.name] = FALSE
  /\ MapHas(tools, sweep.name) /\ healthStatus[sweep.name] = TRUE

(* C38: in every state reachable by interleaving register, unregister,      *)
(* setHealthStatus, performHealthCheck and execute, a health flag that is   *)
(* true belongs to a name that has a descriptor.  performHealthCheck writes *)
(* the verdict of a check under the name it read before its await, whether  *)
(* or not the name is still registered.                                     *)
C38_TrueFlagHasDescriptor ==
  \A n \in DOMAIN healthStatus : healthStatus[n] = TRUE => MapHas(tools, n)

(* C39: every /mcp/{name} endpoint that GET / or GET /tools advertises is a *)
(* route createApp mounted, whatever happened to the registry before and    *)
(* after createApp.  The listings are made from getAllToolStatus() at the   *)
(* time of the request, the routes from getHealthyTools() at createApp.     *)
C39_AdvertisedEndpointsMounted ==
  (http.op = "GET" /\ http.tool \in {"/", "/tools"} /\ http.status = 200) =>
    http.advertised \subseteq app.mounted

\* the loadTool() calls of loadAll() that have not settled
PendingCandidates == {l \in loads : l.owner = "loadAll"}

(* C40: loadAll returns exactly when the load of every candidate has        *)
(* settled: while a candidate is pending loadAll has not returned, when it  *)
(* returns no load and no registration it started is in flight, and it      *)
(* returns eventually if glob, every import and every initialize() settle.  *)
(* Nothing bounds initialize(): a candidate that stays in it keeps loadAll  *)
(* pending while the other candidates are registered.                       *)
C40_LoadAllReturnsWhenAllSettled ==
  /\ [](PendingCandidates # {} => bulk.phase = "loading")
  /\ [](bulk.phase = "done" => (loads = {} /\ regs = {}))
  /\ [][bulk'.phase = "done" =>
          (PendingCandidates = {} /\ seen'.op = "loadAll" /\ seen'.settled = "returned")]_vars
  /\ (bulk.phase \in {"glob", "loading"}) ~> (bulk.phase = "done")

\* time is registered and its candidate fulfilled, while loadAll is held by
\* the initialize() of calc/index.ts
C40_Witness ==
  /\ bulk.phase = "loading"
  /\ bulk.files = {"calc/index.ts", "time/index.ts"}
  /\ DOMAIN bulk.results = {"time/index.ts"}
  /\ bulk.results["time/index.ts"].status = "fulfilled"
  /\ getTool("time") = "timeV1" /\ healthStatus["time"] = TRUE
  /\ \E l \in loads : l.file = "calc/index.ts" /\ l.stage = "register"
  /\ ~AllSettled

====
